---- MODULE Spec2Model ----
(***************************************************************************)
(* A model of testrepository (Rust): the subunit stream codec              *)
(* (src/subunit_stream.rs), the partitioner (src/partition.rs,             *)
(* src/grouping.rs), the file repository (src/repository/file.rs) and the  *)
(* run commands that drive it (src/commands/load.rs, src/commands/run.rs). *)
(*                                                                         *)
(* Nine specifications share the variables below:                          *)
(*   SpecCodec     - write_stream / parse_stream on bounded TestRuns and   *)
(*                   truncated byte streams;                               *)
(*   SpecPartition - partition_tests / partition_tests_with_grouping on    *)
(*                   bounded inputs;                                       *)
(*   Spec          - the repository: run-id counter, run files, the        *)
(*                   `failing` file, driven by load and parallel runs;     *)
(*   SpecTimes     - the duration history times.dbm and its two readers;   *)
(*   SpecWorkers   - the steps of one parallel run: provisioning, worker   *)
(*                   processes, their threads, and every way out;          *)
(*   SpecExecute   - RunCommand::execute: the until-failure loop and       *)
(*                   isolated mode;                                        *)
(*   SpecPipeline  - the processes and threads of a serial or parallel     *)
(*                   run and the bytes that flow between them;             *)
(*   SpecProgress  - parse_stream, parse_stream_with_progress and          *)
(*                   filter_failing_tests on one stream of items;          *)
(*   SpecSink      - a serial run whose raw sink may run out of room.      *)
(* Time is counted in milliseconds.                                        *)
(***************************************************************************)
EXTENDS Integers, Sequences, FiniteSets, TLC

VARIABLES
  \* codec: a TestRun written, cut and parsed back
  c_phase, c_run, c_events, c_bytes, c_parsed,
  \* partitioner: one call and its result
  p_phase, p_in, p_out,
  \* repository: the files of .testrepository and the history of the calls
  next_stream, files, failing, allocated, last, times,
  \* duration history: the calls made on times.dbm and what they returned
  t_calls, t_last, t_latest,
  \* one parallel run, step by step: position, configuration, provisioned
  \* instances, the dispose guard, the workers, the flag and the result
  w_pc, w_cfg, w_inst, w_guard, w_workers, w_any_failed, w_result,
  \* execute: position, options, the isolated run in progress, the outcomes
  \* of the iterations so far and the result
  e_pc, e_cfg, e_idx, e_alive, e_all_results, e_any_failed, e_history, e_result,
  \* the output pipeline of a run: mode, and for each worker the child's
  \* output and progress, the stdout pipe, the tee thread, the raw sink, the
  \* channel, the ChannelReader, the parser, the stderr thread; the position
  \* of the run, the threads it joined, the children it waited for, its result
  s_mode, s_out, s_child, s_pipe, s_tee, s_sink, s_chan, s_reader, s_parser,
  s_stderr, s_pc, s_joined, s_waited, s_result,
  \* the parsers and the filter on one stream: position, the stream and the
  \* output filter, and what each of them returned
  g_phase, g_in, g_out

codecVars == <<c_phase, c_run, c_events, c_bytes, c_parsed>>
partVars == <<p_phase, p_in, p_out>>
repoVars == <<next_stream, files, failing, allocated, last, times>>
timeVars == <<t_calls, t_last, t_latest>>
workerVars == <<w_pc, w_cfg, w_inst, w_guard, w_workers, w_any_failed, w_result>>
execVars == <<e_pc, e_cfg, e_idx, e_alive, e_all_results, e_any_failed, e_history, e_result>>
pipeVars ==
  <<s_mode, s_out, s_child, s_pipe, s_tee, s_sink, s_chan, s_reader, s_parser,
    s_stderr, s_pc, s_joined, s_waited, s_result>>
scanVars == <<g_phase, g_in, g_out>>
vars ==
  <<codecVars, partVars, repoVars, timeVars, workerVars, execVars, pipeVars,
    scanVars>>

\* Option<T>: None is the empty tuple, Some(x) the tuple of x.
None == <<>>
Some(x) == <<x>>
IsSome(o) == o # <<>>
Unwrap(o) == o[1]

\* ---------------------------------------------------------------- bounds
\* Longest child output (in events) the codec model reads.
MaxEvents == 2
\* Number of run-id allocations after which the repository model stops.
MaxRuns == 2
\* Largest worker count offered to the partitioner.
MaxK == 3
\* Number of calls made on the duration history.
MaxCalls == 3

\* The iterations of the until-failure loop that are followed.
MaxIterations == 3
\* Bytes one serialized packet occupies in the byte-level model.
PacketBytes == 2

\* Maximum number of consecutive parse errors before giving up on the stream
MAX_CONSECUTIVE_ERRORS == 100

\* The bytes a child writes to its stdout at most.
MaxOutput == 3

\* The bytes the stdout pipe of a child holds at most.
PipeCapacity == 2

\* The chunks the channel between tee and parser holds at most (100 in
\* sync_channel(100)).
ChannelCapacity == 1

\* The largest buffer the parser hands to ChannelReader::read.
MaxRead == 2

\* The pieces of a stream given to the parsers at most.
MaxPieces == 3

\* ------------------------------------------------------------ data model
TestIds == {"a.x1", "a.x2", "b.y1"}

\* repository::TestStatus
TestStatus ==
  {"Success", "Failure", "Error", "Skip", "ExpectedFailure", "UnexpectedSuccess"}

\* A classification that forgets UnexpectedSuccess: a faulty variant of
\* is_failure.
is_failure_expected_only(status) == status \in {"Failure", "Error"}

\* TestStatus::is_failure
is_failure(status) == status \in {"Failure", "Error", "UnexpectedSuccess"}

\* TestStatus::is_success
is_success(status) == status \in {"Success", "Skip", "ExpectedFailure"}

\* subunit::types::teststatus::TestStatus, the wire status of an event
SubunitTestStatus ==
  {"undefined", "enumeration", "inprogress", "success", "fail", "skip",
   "xfail", "uxsuccess"}

\* subunit Timestamp: `valid` tells whether it converts to a chrono DateTime.
Timestamp(ms) == [ms |-> ms, valid |-> TRUE]

\* A timestamp that does not convert to a chrono DateTime.
BadTimestamp == [ms |-> 0, valid |-> FALSE]

\* convert_timestamp: Err for a timestamp chrono cannot represent
convert_timestamp(timestamp) ==
  IF timestamp.valid THEN Some(timestamp.ms) ELSE None

\* ------------------------------------------------------- finite-map helpers
\* HashMap::insert
Put(m, k, v) == [x \in (DOMAIN m) \cup {k} |-> IF x = k THEN v ELSE m[x]]

\* HashMap::remove
Remove(m, k) == [x \in (DOMAIN m) \ {k} |-> m[x]]

\* The sequences over S of length at most n.
RECURSIVE SeqsUpTo(_, _)
SeqsUpTo(S, n) ==
  IF n = 0 THEN {<<>>}
  ELSE LET shorter == SeqsUpTo(S, n - 1)
       IN shorter \cup {Append(q, x) : q \in {r \in shorter : Len(r) = n - 1}, x \in S}

\* The elements of a list.
Range(seq) == {seq[i] : i \in 1..Len(seq)}

\* HashMap::new
EmptyMap == [x \in {} |-> 0]

\* Permutations of a finite set, as sequences: the possible iteration orders
\* of a HashMap with these keys.
RECURSIVE Orders(_)
Orders(S) ==
  IF S = {} THEN {<<>>}
  ELSE UNION {{<<x>> \o o : o \in Orders(S \ {x})} : x \in S}

\* -------------------------------------------------------------- the codec
\* convert_subunit_status: "none" stands for the None of the non-terminal statuses
convert_subunit_status(status) ==
  CASE status = "success" -> "Success"
    [] status = "fail" -> "Failure"
    [] status = "skip" -> "Skip"
    [] status = "xfail" -> "ExpectedFailure"
    [] status = "uxsuccess" -> "UnexpectedSuccess"
    [] OTHER -> "none"

\* A status match that writes an Error as a success: a faulty variant of
\* WireStatus.
WireStatusLossy(status) ==
  CASE status = "Success" -> "success"
    [] status = "Failure" -> "fail"
    [] status = "Error" -> "success"
    [] status = "Skip" -> "skip"
    [] status = "ExpectedFailure" -> "xfail"
    [] OTHER -> "uxsuccess"

\* The status written for a TestStatus (write_stream's match).
WireStatus(status) ==
  CASE status = "Success" -> "success"
    [] status = "Failure" -> "fail"
    [] status = "Error" -> "fail"
    [] status = "Skip" -> "skip"
    [] status = "ExpectedFailure" -> "xfail"
    [] OTHER -> "uxsuccess"

\* subunit Event, as far as this program reads and writes it
Event(id, status, ts, tags, file) ==
  [test_id |-> id, status |-> status, timestamp |-> ts, tags |-> tags,
   file |-> file]

\* ScannedItem::Event
EventItem(e) == [kind |-> "event", ev |-> e]

\* ScannedItem::Unknown
UnknownItem == [kind |-> "unknown"]

\* The Err item of iter_stream
ErrItem == [kind |-> "err"]

\* ScannedItem::Bytes
BytesItem == [kind |-> "bytes"]

\* Event::serialize: a packet of PacketBytes bytes; byte k of the packet of e.
Serialize(e) == [k \in 1..PacketBytes |-> [ev |-> e, k |-> k]]

RECURSIVE SerializeAll(_)
SerializeAll(events) ==
  IF events = <<>> THEN <<>>
  ELSE Serialize(Head(events)) \o SerializeAll(Tail(events))

\* Whether a whole packet starts at position i of bytes.
PacketAt(bytes, i) ==
  /\ i + PacketBytes - 1 <= Len(bytes)
  /\ \A k \in 1..PacketBytes :
       /\ bytes[i + k - 1].k = k
       /\ bytes[i + k - 1].ev = bytes[i].ev

\* iter_stream: the items scanned from a byte stream. A packet is an Event only
\* when all of its bytes are there (the packet carries its length and a CRC);
\* the bytes of a broken packet come out as one item that is no Event, of the
\* kind `tail` (Unknown, Err or Bytes: which one is the subunit crate's choice).
RECURSIVE iter_stream_from(_, _, _)
iter_stream_from(bytes, i, tail) ==
  IF i > Len(bytes) THEN <<>>
  ELSE IF PacketAt(bytes, i)
    THEN <<EventItem(bytes[i].ev)>> \o iter_stream_from(bytes, i + PacketBytes, tail)
    ELSE LET RECURSIVE skip(_)
             skip(j) == IF j > Len(bytes) \/ PacketAt(bytes, j) THEN j ELSE skip(j + 1)
         IN <<tail>> \o iter_stream_from(bytes, skip(i + 1), tail)

iter_stream(bytes, tail) == iter_stream_from(bytes, 1, tail)

\* TestResult
TestResult(id, status, duration, message, details, tags) ==
  [test_id |-> id, status |-> status, duration |-> duration,
   message |-> message, details |-> details, tags |-> tags]

\* The loop state of parse_stream before the first item.
ParseInit ==
  [results |-> EmptyMap, start_times |-> EmptyMap, consecutive_errors |-> 0,
   stopped |-> FALSE, error |-> FALSE]

\* A parser that fails on the first item that is no Event: a faulty variant of
\* ParseError.
ParseFatalOnError(s) == [s EXCEPT !.stopped = TRUE, !.error = TRUE]

\* A parser that gives up one item late: a faulty variant of ParseError.
ParseErrorLate(s) ==
  LET n == s.consecutive_errors + 1
  IN [s EXCEPT !.consecutive_errors = n,
               !.stopped = (n > MAX_CONSECUTIVE_ERRORS)]

\* The Err(_) and ScannedItem::Unknown arms: count, give up at the bound.
ParseError(s) ==
  LET n == s.consecutive_errors + 1
  IN [s EXCEPT !.consecutive_errors = n,
               !.stopped = (n >= MAX_CONSECUTIVE_ERRORS)]

\* A duration that keeps a negative difference: a faulty variant of
\* EventDuration.
EventDurationSigned(s, e) ==
  IF Unwrap(e.test_id) \in DOMAIN s.start_times /\ IsSome(e.timestamp)
    THEN Some(Unwrap(e.timestamp).ms - s.start_times[Unwrap(e.test_id)])
    ELSE None

\* The duration of a terminal event: end - start when both exist and the
\* difference is not negative. The caller has excluded a bad end timestamp.
EventDuration(s, e) ==
  IF Unwrap(e.test_id) \in DOMAIN s.start_times /\ IsSome(e.timestamp)
    THEN LET d == Unwrap(e.timestamp).ms - s.start_times[Unwrap(e.test_id)]
         IN IF d >= 0 THEN Some(d) ELSE None
    ELSE None

\* The ScannedItem::Event arm of parse_stream.
ParseEvent(s, e) ==
  LET s0 == [s EXCEPT !.consecutive_errors = 0]
      failed == [s0 EXCEPT !.stopped = TRUE, !.error = TRUE]
      status == convert_subunit_status(e.status)
      id == Unwrap(e.test_id)
  IN IF ~IsSome(e.test_id) THEN s0
     ELSE IF e.status = "inprogress" THEN
       IF ~IsSome(e.timestamp) THEN s0
       ELSE IF ~IsSome(convert_timestamp(Unwrap(e.timestamp))) THEN failed
       ELSE [s0 EXCEPT !.start_times =
               Put(@, id, Unwrap(convert_timestamp(Unwrap(e.timestamp))))]
     ELSE IF status = "none" THEN s0
     ELSE IF /\ id \in DOMAIN s.start_times
             /\ IsSome(e.timestamp)
             /\ ~IsSome(convert_timestamp(Unwrap(e.timestamp)))
       THEN failed
       ELSE [s0 EXCEPT !.results =
               Put(@, id,
                   TestResult(id, status, EventDuration(s, e), e.file, e.file,
                              IF IsSome(e.tags) THEN Unwrap(e.tags) ELSE <<>>))]

\* One iteration of the loop of parse_stream.
ParseStep(s, item) ==
  IF s.stopped THEN s
  ELSE CASE item.kind = "event" -> ParseEvent(s, item.ev)
         [] item.kind = "bytes" -> [s EXCEPT !.consecutive_errors = 0]
         [] OTHER -> ParseError(s)

RECURSIVE ParseItems(_, _)
ParseItems(s, items) ==
  IF items = <<>> THEN s ELSE ParseItems(ParseStep(s, Head(items)), Tail(items))

\* parse_stream: [ok |-> FALSE] for Err, else the results of the TestRun.
parse_stream(bytes, tail) ==
  LET s == ParseItems(ParseInit, iter_stream(bytes, tail))
  IN IF s.error THEN [ok |-> FALSE, results |-> EmptyMap]
     ELSE [ok |-> TRUE, results |-> s.results]

\* The whole seconds of a duration, in ms (Duration::as_secs).
as_secs_ms(duration) == (duration \div 1000) * 1000

\* The events write_stream emits for one result of a run stamped `timestamp`.
WriteResult(r, timestamp) ==
  LET tags == IF r.tags = <<>> THEN None ELSE Some(r.tags)
      start == IF ~IsSome(r.duration) THEN <<>>
               ELSE <<Event(Some(r.test_id), "inprogress",
                            Some(Timestamp(timestamp - as_secs_ms(Unwrap(r.duration)))),
                            tags, None)>>
  IN start \o <<Event(Some(r.test_id), WireStatus(r.status),
                      Some(Timestamp(timestamp)), tags, r.details)>>

\* write_stream: the results in the iteration order `order` of the map.
RECURSIVE WriteEvents(_, _, _)
WriteEvents(results, timestamp, order) ==
  IF order = <<>> THEN <<>>
  ELSE WriteResult(results[Head(order)], timestamp)
         \o WriteEvents(results, timestamp, Tail(order))

write_stream(results, timestamp, order) ==
  SerializeAll(WriteEvents(results, timestamp, order))

\* -------------------------------------------------------- the partitioner
\* Historical durations a test may have (ms).
Durations == {100, 5000}

\* sort_by(|a, b| b.d.cmp(&a.d)) one element at a time: x goes before the
\* first item that is strictly shorter, so equal items keep their order.
InsertDesc(sorted, x) ==
  LET shorter == {i \in 1..Len(sorted) : sorted[i].d < x.d}
      at == IF shorter = {} THEN Len(sorted) + 1
            ELSE CHOOSE i \in shorter : \A j \in shorter : i <= j
  IN SubSeq(sorted, 1, at - 1) \o <<x>> \o SubSeq(sorted, at, Len(sorted))

\* The stable sort of items by duration, longest first.
RECURSIVE SortDesc(_)
SortDesc(items) ==
  IF items = <<>> THEN <<>>
  ELSE InsertDesc(SortDesc(SubSeq(items, 1, Len(items) - 1)), items[Len(items)])

\* (0..concurrency).map(|_| (Vec::new(), Duration::ZERO))
EmptyPartitions(concurrency) == [i \in 1..concurrency |-> [ids |-> <<>>, total |-> 0]]

\* A choice of the first partition whatever the totals: a faulty variant of
\* MinPartition.
MinPartitionFirst(partitions) == 1

\* min_by_key(total_duration): the first of the partitions of least total
MinPartition(partitions) ==
  CHOOSE i \in 1..Len(partitions) :
    /\ \A j \in 1..Len(partitions) : partitions[i].total <= partitions[j].total
    /\ \A j \in 1..(i - 1) : partitions[j].total > partitions[i].total

\* The greedy loop: each item (its ids as a unit) goes to the least loaded
\* partition.
RECURSIVE Greedy(_, _)
Greedy(partitions, items) ==
  IF items = <<>> THEN partitions
  ELSE LET m == MinPartition(partitions)
           x == Head(items)
       IN Greedy([partitions EXCEPT ![m].ids = @ \o x.ids, ![m].total = @ + x.d],
                 Tail(items))

\* A slot that never advances: a faulty variant of RoundRobinSlot.
RoundRobinSlotFirst(idx, concurrency) == 1

\* The round-robin loop over the ids without a duration; idx counts from 0.
RoundRobinSlot(idx, concurrency) == (idx % concurrency) + 1

RECURSIVE RoundRobin(_, _, _)
RoundRobin(partitions, ids, idx) ==
  IF ids = <<>> THEN partitions
  ELSE RoundRobin(
         [partitions EXCEPT ![RoundRobinSlot(idx, Len(partitions))].ids =
                              Append(@, Head(ids))],
         Tail(ids), idx + 1)

\* A partitioner without the round-robin loop: a faulty variant of
\* PartitionBalanced.
PartitionBalancedKnownOnly(test_ids, durations, concurrency) ==
  LET known(id) == id \in DOMAIN durations
      with_ids == SelectSeq(test_ids, known)
      with_duration ==
        [i \in 1..Len(with_ids) |-> [ids |-> <<with_ids[i]>>, d |-> durations[with_ids[i]]]]
      packed == Greedy(EmptyPartitions(concurrency), SortDesc(with_duration))
  IN [i \in 1..concurrency |-> packed[i].ids]

\* The body of partition_tests for concurrency >= 2.
PartitionBalanced(test_ids, durations, concurrency) ==
  LET known(id) == id \in DOMAIN durations
      unknown(id) == id \notin DOMAIN durations
      with_ids == SelectSeq(test_ids, known)
      with_duration ==
        [i \in 1..Len(with_ids) |-> [ids |-> <<with_ids[i]>>, d |-> durations[with_ids[i]]]]
      without_duration == SelectSeq(test_ids, unknown)
      packed == Greedy(EmptyPartitions(concurrency), SortDesc(with_duration))
      spread == RoundRobin(packed, without_duration, 0)
  IN [i \in 1..concurrency |-> spread[i].ids]

\* partition_tests
partition_tests(test_ids, durations, concurrency) ==
  IF concurrency = 0 THEN <<>>
  ELSE IF concurrency = 1 THEN <<test_ids>>
  ELSE PartitionBalanced(test_ids, durations, concurrency)

\* Grouping patterns: three that group by the part before the dot or by a
\* leading "a", one whose first capture group does not take part in every
\* match, and one that is no regular expression.
PatModule == "^(.*)[.][^.]+$"
PatNamed == "^(?P<group>[^.]+)[.]"
PatWhole == "^a"
PatOptional == "^(?:(a)|b)[.]"
PatInvalid == "("
ValidPatterns == {PatModule, PatNamed, PatWhole, PatOptional}

\* The part of a test id before its dot.
Prefix(id) == IF id \in {"b.y1", "b.y2"} THEN "b" ELSE "a"

\* Regex::captures(test_str) for the patterns above: whether the pattern
\* matches, Captures::len(), and the matches of the group named `group`, of
\* group 1 and of group 0.
Captures(pattern, id) ==
  CASE pattern = PatModule ->
         [matched |-> TRUE, len |-> 2, named |-> None, g1 |-> Some(Prefix(id)),
          g0 |-> id]
    [] pattern = PatNamed ->
         [matched |-> TRUE, len |-> 2, named |-> Some(Prefix(id)),
          g1 |-> Some(Prefix(id)), g0 |-> Prefix(id) \o "."]
    [] pattern = PatWhole ->
         [matched |-> Prefix(id) = "a", len |-> 1, named |-> None, g1 |-> None,
          g0 |-> "a"]
    [] OTHER ->
         [matched |-> TRUE, len |-> 2, named |-> None,
          g1 |-> IF Prefix(id) = "a" THEN Some("a") ELSE None,
          g0 |-> Prefix(id) \o "."]

\* The group name group_tests gives a test: "#panic" stands for the panic of
\* captures.get(1).unwrap() on a group that took no part in the match.
GroupName(pattern, id) ==
  LET c == Captures(pattern, id)
  IN IF ~c.matched THEN id
     ELSE IF IsSome(c.named) THEN Unwrap(c.named)
     ELSE IF c.len > 1 THEN (IF IsSome(c.g1) THEN Unwrap(c.g1) ELSE "#panic")
     ELSE c.g0

\* group_tests, for a pattern that compiles: group name -> its tests, in
\* input order.
group_tests(tests, pattern) ==
  LET names == {GroupName(pattern, tests[i]) : i \in 1..Len(tests)}
  IN [n \in names |->
        LET member(id) == GroupName(pattern, id) = n IN SelectSeq(tests, member)]

\* Sum of the known durations of a list of tests.
RECURSIVE TotalDuration(_, _)
TotalDuration(ids, durations) ==
  IF ids = <<>> THEN 0
  ELSE (IF Head(ids) \in DOMAIN durations THEN durations[Head(ids)] ELSE 0)
         + TotalDuration(Tail(ids), durations)

\* Err(regex::Error), a panic, or Ok(partitions)
PartErr == [status |-> "err", parts |-> <<>>]
PartPanic == [status |-> "panic", parts |-> <<>>]
PartOk(parts) == [status |-> "ok", parts |-> parts]

\* partition_tests_with_grouping; `order` is the iteration order of the
\* HashMap of groups.
partition_tests_with_grouping(test_ids, durations, concurrency, group_regex, order) ==
  IF ~IsSome(group_regex) THEN PartOk(partition_tests(test_ids, durations, concurrency))
  ELSE IF concurrency = 0 THEN PartOk(<<>>)
  ELSE IF concurrency = 1 THEN PartOk(<<test_ids>>)
  ELSE IF Unwrap(group_regex) \notin ValidPatterns THEN PartErr
  ELSE LET groups == group_tests(test_ids, Unwrap(group_regex))
           group_durations ==
             [i \in 1..Len(order) |->
                [ids |-> groups[order[i]],
                 d |-> TotalDuration(groups[order[i]], durations)]]
           packed == Greedy(EmptyPartitions(concurrency), SortDesc(group_durations))
       IN IF "#panic" \in DOMAIN groups THEN PartPanic
          ELSE PartOk([i \in 1..concurrency |-> packed[i].ids])

\* The group orders a call may meet.
GroupOrders(test_ids, concurrency, group_regex) ==
  IF IsSome(group_regex) /\ concurrency >= 2 /\ Unwrap(group_regex) \in ValidPatterns
    THEN Orders(DOMAIN group_tests(test_ids, Unwrap(group_regex)))
    ELSE {<<>>}

\* -------------------------------------------- partitioner: specification
\* The test ids the partitioner is called with.
PartitionIds == TestIds \cup {"b.y2"}

\* The lists of distinct test ids.
TestLists == UNION {Orders(S) : S \in SUBSET PartitionIds}

\* The duration histories of the tests.
DurationMaps == UNION {[S -> Durations] : S \in SUBSET PartitionIds}

\* A call of the partitioner is about to be made with some arguments.
PartitionInit ==
  /\ p_phase = "call"
  /\ p_in \in [test_ids : TestLists, durations : DurationMaps,
               concurrency : 0..MaxK,
               group_regex : {None} \cup {Some(p) : p \in ValidPatterns \cup {PatInvalid}}]
  /\ p_out = None

\* partition_tests_with_grouping(&all_tests, &durations, concurrency, group_regex)
PartitionCall ==
  /\ p_phase = "call"
  /\ \E order \in GroupOrders(p_in.test_ids, p_in.concurrency, p_in.group_regex) :
       p_out' = Some(partition_tests_with_grouping(
                       p_in.test_ids, p_in.durations, p_in.concurrency,
                       p_in.group_regex, order))
  /\ p_phase' = "returned"
  /\ UNCHANGED <<p_in, codecVars, repoVars, timeVars, workerVars, execVars, pipeVars, scanVars>>

PartitionNext == PartitionCall

\* ---------------------------------------------------------- the repository
\* The test ids for which a stream holds a failing event (first pass of
\* filter_failing_tests).
FailingInStream(items) ==
  {Unwrap(items[i].ev.test_id) :
     i \in {j \in 1..Len(items) :
              /\ items[j].kind = "event"
              /\ IsSome(items[j].ev.test_id)
              /\ items[j].ev.status \in {"fail", "uxsuccess"}}}

\* The events of the items that carry a test id of `ids`, serialized again.
KeepEvents(items, ids) ==
  LET keep(item) ==
        /\ item.kind = "event"
        /\ IsSome(item.ev.test_id)
        /\ Unwrap(item.ev.test_id) \in ids
      kept == SelectSeq(items, keep)
  IN SerializeAll([i \in 1..Len(kept) |-> kept[i].ev])

\* filter_failing_tests: the bytes written for the bytes read
filter_failing_tests(bytes) ==
  LET items == iter_stream(bytes, UnknownItem)
  IN KeepEvents(items, FailingInStream(items))

\* FileRepository::read_failing_run, on the `failing` file f (None: no file)
read_failing_run(f) ==
  IF ~IsSome(f) THEN [ok |-> TRUE, results |-> EmptyMap]
  ELSE parse_stream(Unwrap(f), UnknownItem)

\* FileRepository::get_failing_tests: the keys of the parsed `failing` file,
\* None for Err
get_failing_tests(f) ==
  LET r == read_failing_run(f)
  IN IF r.ok THEN Some(DOMAIN r.results) ELSE None

\* FileRepository::get_test_run, on the run files fs
get_test_run(fs, run_id) ==
  IF run_id \notin DOMAIN fs THEN [ok |-> FALSE, results |-> EmptyMap]
  ELSE parse_stream(fs[run_id], UnknownItem)

\* FileRepository::get_latest_run: the run stored under the last id handed
\* out; Err when none was.
get_latest_run(fs, next) ==
  IF next = 0 THEN [ok |-> FALSE, results |-> EmptyMap]
  ELSE get_test_run(fs, next - 1)

\* The tests RunCommand::execute selects under failing_only: the failing
\* tests of the latest run. `ok` is FALSE when get_latest_run fails, and an
\* empty selection ends the command with "No failing tests to run".
FailingOnlyTests(fs, next) ==
  LET latest == get_latest_run(fs, next)
  IN [ok |-> latest.ok,
      ids |-> {id \in DOMAIN latest.results : is_failure(latest.results[id].status)}]

\* A step of a repository call: whether it returned Ok, and the `failing`
\* file it leaves.
Outcome(ok, f) == [ok |-> ok, failing |-> f]

\* FileRepository::write_failing_run_from_raw (replace_failing_tests)
\* A replace that leaves an empty `failing` file behind: a faulty variant of
\* write_failing_run_from_raw.
write_failing_run_keeping_empty(fs, f, run_id) ==
  IF run_id \notin DOMAIN fs THEN Outcome(FALSE, f)
  ELSE Outcome(TRUE, Some(filter_failing_tests(fs[run_id])))

\* FileRepository::write_failing_run_from_raw (replace_failing_tests)
write_failing_run_from_raw(fs, f, run_id) ==
  IF run_id \notin DOMAIN fs THEN Outcome(FALSE, f)
  ELSE LET out == filter_failing_tests(fs[run_id])
       IN Outcome(TRUE, IF out = <<>> THEN None ELSE Some(out))

\* The loop of update_failing_run_from_raw over the results of the new run:
\* a failure is inserted, a success removed.
RECURSIVE MergeResults(_, _, _)
MergeResults(existing, new, ids) ==
  IF ids = {} THEN existing
  ELSE LET id == CHOOSE x \in ids : TRUE
           next == IF is_failure(new[id].status) THEN Put(existing, id, new[id])
                   ELSE IF is_success(new[id].status) THEN Remove(existing, id)
                   ELSE existing
       IN MergeResults(next, new, ids \ {id})

\* FileRepository::update_failing_run_from_raw (update_failing_tests)
update_failing_run_from_raw(fs, f, run_id) ==
  LET read == read_failing_run(f)
      existing == IF read.ok THEN read.results ELSE EmptyMap
      new_run == get_test_run(fs, run_id)
      existing_failing == MergeResults(existing, new_run.results, DOMAIN new_run.results)
      kept == IF IsSome(f)
                THEN KeepEvents(iter_stream(Unwrap(f), UnknownItem),
                                (DOMAIN existing_failing) \ (DOMAIN new_run.results))
                ELSE <<>>
  IN IF ~new_run.ok THEN Outcome(FALSE, f)
     ELSE IF DOMAIN existing_failing = {} THEN Outcome(TRUE, None)
     ELSE Outcome(TRUE, Some(kept \o filter_failing_tests(fs[run_id])))

\* What may go wrong with the file system while the failing tests are
\* stored: nothing, a read of the run file that fails (read_to_end), and a
\* write that fails after `after` events were written.
NoFault == [kind |-> "none", after |-> 0]

StoreFaults ==
  {NoFault, [kind |-> "read", after |-> 0], [kind |-> "write", after |-> 1]}

\* write_failing_run_from_raw under a fault: the run file is opened first,
\* then File::create empties the `failing` file, then filter_failing_tests
\* reads the run file whole and writes event after event; an Err leaves the
\* `failing` file as far as it was written.
replace_failing_tests(fs, f, run_id, fault) ==
  IF run_id \notin DOMAIN fs THEN Outcome(FALSE, f)
  ELSE IF fault.kind = "read" THEN Outcome(FALSE, Some(<<>>))
  ELSE LET out == filter_failing_tests(fs[run_id])
       IN IF fault.kind = "write" /\ fault.after * PacketBytes < Len(out)
            THEN Outcome(FALSE, Some(SubSeq(out, 1, fault.after * PacketBytes)))
            ELSE write_failing_run_from_raw(fs, f, run_id)

\* update_failing_run_from_raw under a fault: the merged stream is written
\* to failing.tmp, which replaces the `failing` file by a rename at the end;
\* an Err on the way leaves the `failing` file alone. Nothing is read or
\* written again when no failure remains.
update_failing_tests(fs, f, run_id, fault) ==
  LET merged == update_failing_run_from_raw(fs, f, run_id)
  IN IF merged.ok /\ IsSome(merged.failing) /\ fault.kind # "none"
       THEN Outcome(FALSE, f)
       ELSE merged

\* commands::utils::update_repository_failing_tests(repo, run, partial): a
\* partial run merges, a full run replaces.
update_repository_failing_tests(fs, f, run_id, partial) ==
  IF partial THEN update_failing_run_from_raw(fs, f, run_id)
  ELSE write_failing_run_from_raw(fs, f, run_id)

\* A counter that is read but not advanced: a faulty variant of
\* increment_next_stream.
increment_next_stream_stuck(current) == [id |-> current, next |-> current]

\* FileRepository::increment_next_stream: the id handed out and the counter
\* written back
increment_next_stream(current) == [id |-> current, next |-> current + 1]

\* The bytes of a run file the model no longer holds: the file of an earlier
\* command. A run file is read only by the command that wrote it and, until
\* the next command begins, by get_latest_run.
Archived == <<"archived">>

Archive(fs) == [id \in DOMAIN fs |-> Archived]

\* The test id -> status map of a result map.
Statuses(results) == [id \in DOMAIN results |-> results[id].status]

\* ------------------------------------------------------ duration history
\* The text stored for a duration: duration.as_secs_f64().to_string(). At the
\* millisecond resolution of the model the decimal text of the f64 names the
\* duration exactly.
SecondsText(ms) == [kind |-> "seconds", ms |-> ms]

\* A stored text that parses as a negative f64, such as "-1.5".
NegativeText == [kind |-> "negative", ms |-> 0]

\* A stored text that does not parse as an f64.
NotANumber == [kind |-> "text", ms |-> 0]

\* times.dbm: absent, an SQLite database with the table Dict, a GDBM database,
\* or a file that is neither.
NoTimes == [format |-> "absent", dict |-> EmptyMap]

TimesFile(format, dict) == [format |-> format, dict |-> dict]

\* What a reader call gives: Ok(map), Err, or a panic.
TimesOk(map) == [status |-> "ok", map |-> map]

TimesErr == [status |-> "err", map |-> EmptyMap]

TimesPanic == [status |-> "panic", map |-> EmptyMap]

\* The loop of read_times_sqlite and read_times_gdbm over the requested ids: a
\* missing row and a text that is no f64 are skipped; Duration::from_secs_f64
\* panics on a negative number.
ReadRows(dict, test_ids) ==
  LET found == {id \in Range(test_ids) \cap DOMAIN dict : dict[id].kind # "text"}
  IN IF \E id \in found : dict[id].kind = "negative" THEN TimesPanic
     ELSE TimesOk([id \in found |-> dict[id].ms])

\* FileRepository::read_times_sqlite
read_times_sqlite(t, test_ids) ==
  IF t.format = "sqlite" THEN ReadRows(t.dict, test_ids) ELSE TimesErr

\* FileRepository::read_times_gdbm
read_times_gdbm(t, test_ids) ==
  IF t.format = "gdbm" THEN ReadRows(t.dict, test_ids) ELSE TimesErr

\* FileRepository::get_test_times_for_ids (get_test_times_for_ids_impl)
get_test_times_for_ids(t, test_ids) ==
  IF t.format = "absent" THEN TimesOk(EmptyMap)
  ELSE IF read_times_sqlite(t, test_ids).status # "err"
    THEN read_times_sqlite(t, test_ids)
  ELSE IF read_times_gdbm(t, test_ids).status # "err"
    THEN read_times_gdbm(t, test_ids)
  ELSE TimesOk(EmptyMap)

\* An update that adds the new duration to the stored one: a faulty variant of
\* update_test_times.
update_test_times_summing(t, new) ==
  [ok |-> TRUE,
   times |-> TimesFile("sqlite",
               [id \in (DOMAIN t.dict) \cup (DOMAIN new) |->
                  IF id \notin DOMAIN new THEN t.dict[id]
                  ELSE IF id \in DOMAIN t.dict
                    THEN SecondsText(t.dict[id].ms + new[id])
                  ELSE SecondsText(new[id])])]

\* FileRepository::update_test_times (update_test_times_impl): Ok or Err, and
\* the file it leaves. INSERT OR REPLACE overwrites the row of each id given.
update_test_times(t, new) ==
  IF DOMAIN new = {} THEN [ok |-> TRUE, times |-> t]
  ELSE IF t.format \in {"gdbm", "corrupt"} THEN [ok |-> FALSE, times |-> t]
  ELSE [ok |-> TRUE,
        times |-> TimesFile("sqlite",
                    [id \in (DOMAIN t.dict) \cup (DOMAIN new) |->
                       IF id \in DOMAIN new THEN SecondsText(new[id])
                       ELSE t.dict[id]])]

\* The durations of the results of a run that have one (the loop before
\* update_test_times in LoadCommand::execute and insert_test_run_partial).
KnownDurations(results) ==
  [id \in {x \in DOMAIN results : IsSome(results[x].duration)} |->
     Unwrap(results[id].duration)]

\* The step after a run: update the duration history when the run has
\* durations; an Err is passed on to the caller.
update_times_after_run(t, results) ==
  IF DOMAIN KnownDurations(results) = {} THEN [ok |-> TRUE, times |-> t]
  ELSE update_test_times(t, KnownDurations(results))

\* ----------------------------------------- duration history: specification
\* The times.dbm files a repository may come with: none, one written by this
\* program or by Python's dbm.sqlite3, one written by Python's dbm.gnu, one
\* holding a row that is no duration, and a file that is no database.
InitialTimes ==
  { NoTimes,
    TimesFile("sqlite", [id \in {"a.x1"} |-> SecondsText(100)]),
    TimesFile("sqlite", [id \in {"a.x1"} |-> NotANumber]),
    TimesFile("sqlite", [id \in {"a.x1"} |-> NegativeText]),
    TimesFile("gdbm", [id \in {"a.x1", "b.y1"} |-> SecondsText(5000)]),
    TimesFile("corrupt", EmptyMap) }

\* The durations a file holds for certain when every row was written by
\* update_test_times; None for the files with other rows.
Tracked(t) ==
  IF t.format \notin {"absent", "sqlite"} THEN None
  ELSE IF \E id \in DOMAIN t.dict : t.dict[id].kind # "seconds" THEN None
  ELSE Some([id \in DOMAIN t.dict |-> t.dict[id].ms])

\* The results of a run as far as the duration history reads them.
TimedResults ==
  UNION {[S -> {TestResult("t", "Success", d, None, None, <<>>) :
                  d \in {None} \cup {Some(ms) : ms \in Durations}}] :
           S \in SUBSET TestIds}

\* Outside SpecWorkers and SpecExecute no run is in progress.
WorkersIdle ==
  /\ w_pc = "idle" /\ w_cfg = None /\ w_inst = <<>> /\ w_guard = FALSE
  /\ w_workers = <<>> /\ w_any_failed = FALSE /\ w_result = None

ExecIdle ==
  /\ e_pc = "idle" /\ e_cfg = None /\ e_idx = 0 /\ e_alive = {}
  /\ e_all_results = EmptyMap /\ e_any_failed = FALSE /\ e_history = <<>>
  /\ e_result = None

TimesIdle == t_calls = 0 /\ t_last = None /\ t_latest = None

TimesInit ==
  /\ times \in InitialTimes
  /\ t_calls = 0
  /\ t_last = None
  /\ t_latest = Tracked(times)

\* The duration update that follows a run.
UpdateTimes ==
  /\ t_calls < MaxCalls
  /\ \E results \in TimedResults :
       LET upd == update_times_after_run(times, results)
           new == KnownDurations(results)
       IN /\ times' = upd.times
          /\ t_last' = Some([op |-> "update", ok |-> upd.ok, before |-> times,
                             arg |-> new, ids |-> <<>>, result |-> TimesOk(EmptyMap)])
          /\ t_latest' =
               IF IsSome(t_latest) /\ upd.ok
                 THEN Some([id \in (DOMAIN Unwrap(t_latest)) \cup (DOMAIN new) |->
                              IF id \in DOMAIN new THEN new[id] ELSE Unwrap(t_latest)[id]])
                 ELSE t_latest
  /\ t_calls' = t_calls + 1
  /\ UNCHANGED <<next_stream, files, failing, allocated, last, codecVars, partVars, workerVars, execVars, pipeVars, scanVars>>

\* repo.get_test_times_for_ids(&all_tests) at the start of a run.
GetTimes ==
  /\ t_calls < MaxCalls
  /\ \E test_ids \in TestLists :
       t_last' = Some([op |-> "get", ok |-> TRUE, before |-> times, arg |-> EmptyMap,
                       ids |-> test_ids,
                       result |-> get_test_times_for_ids(times, test_ids)])
  /\ t_calls' = t_calls + 1
  /\ UNCHANGED <<repoVars, t_latest, codecVars, partVars, workerVars, execVars, pipeVars, scanVars>>

TimesNext == UpdateTimes \/ GetTimes

\* ---------------------------------------------- repository: specification
\* What a test process reports for one test: nothing, one terminal event, or
\* a failure followed by a success (the test was run again).
Reports == {<<>>, <<"success">>, <<"fail">>, <<"fail", "success">>}

\* The events of one test with the statuses `report`.
ReportEvents(id, report) ==
  [i \in 1..Len(report) |-> Event(Some(id), report[i], None, None, None)]

\* The streams a `load` reads: for each test of `ids`, in order, one report.
RECURSIVE LoadStreams(_)
LoadStreams(ids) ==
  IF ids = <<>> THEN {<<>>}
  ELSE {ReportEvents(Head(ids), report) \o rest :
          report \in Reports, rest \in LoadStreams(Tail(ids))}

\* The tests of the project, in listing order.
AllTests == <<"a.x1", "a.x2", "b.y1">>

\* The tests that report in a load during which the file system fails.
FaultedTests == <<"a.x1">>

\* The time a test of the project takes, in milliseconds.
TestMillis(id) == IF id = "a.x1" THEN 5000 ELSE 100

\* The events a worker emits for one test: its start and its outcome, both
\* timestamped.
WorkerEvents(id, st) ==
  <<Event(Some(id), "inprogress", Some(Timestamp(0)), None, None),
    Event(Some(id), st, Some(Timestamp(TestMillis(id))), None, None)>>

\* The output of a worker that ran the tests `ids`: start and outcome of each,
\* in order, with the outcomes `st`.
RECURSIVE WorkerOutput(_, _)
WorkerOutput(ids, st) ==
  IF ids = <<>> THEN <<>>
  ELSE WorkerEvents(Head(ids), st[Head(ids)]) \o WorkerOutput(Tail(ids), st)

\* An event whose timestamp chrono cannot represent: the parser returns Err at
\* it.
BrokenEvent == Event(Some("a.x1"), "inprogress", Some(BadTimestamp), None, None)

\* What may go wrong in the parse thread of one worker: nothing, a stream the
\* parser rejects, or a panic of the thread.
NoTrouble == [kind |-> "none", worker |-> 0]

Troubles(n) ==
  {NoTrouble} \cup [kind : {"protocol", "panic"}, worker : 1..n]

\* The record of a finished command. `run` holds what only a test run has: its
\* exit code, whether a worker exited non-zero, and the parse trouble;
\* `stored` tells how the update of the failing tests ended, "skipped" when
\* the command returned before it; `before` is what get_failing_tests gave
\* when the command began.
Done(op, partial, run_id, ids, statuses, ok, run, stored, before) ==
  Some([op |-> op, partial |-> partial, run_id |-> run_id, ids |-> ids,
        statuses |-> statuses, ok |-> ok, run |-> run, stored |-> stored,
        before |-> before, next_before |-> next_stream,
        files_before |-> DOMAIN files, times_before |-> times])

\* LoadCommand::execute: store the stream read from stdin as a new run, then
\* replace or (partial) merge the failing tests from it, then update the
\* duration history from the results that carry a duration. The file system
\* may fail while the failing tests are stored.
Load ==
  /\ next_stream < MaxRuns
  /\ \E before \in {get_failing_tests(failing)} :
     \E partial \in BOOLEAN, fault \in StoreFaults :
     \E events \in LoadStreams(IF fault = NoFault THEN AllTests ELSE FaultedTests) :
     \E begin \in {increment_next_stream(next_stream)} :
     \E all_data \in {SerializeAll(events)} :
     \E fs \in {Put(Archive(files), begin.id, all_data)} :
     \E test_run \in {parse_stream(all_data, UnknownItem)} :
     \E out \in {IF ~test_run.ok THEN Outcome(FALSE, failing)
                 ELSE IF partial THEN update_failing_tests(fs, failing, begin.id, fault)
                 ELSE replace_failing_tests(fs, failing, begin.id, fault)} :
     \E timed \in {IF out.ok THEN update_times_after_run(times, test_run.results)
                   ELSE [ok |-> FALSE, times |-> times]} :
       /\ next_stream' = begin.next
       /\ allocated' = Append(allocated, begin.id)
       /\ files' = fs
       /\ failing' = out.failing
       /\ times' = timed.times
       /\ last' = Done("load", partial, begin.id, <<begin.id>>,
                       Statuses(test_run.results), out.ok /\ timed.ok, None,
                       IF ~test_run.ok THEN "skipped"
                       ELSE IF out.ok THEN "ok" ELSE "err",
                       before)
  /\ UNCHANGED <<codecVars, partVars, timeVars, workerVars, execVars, pipeVars, scanVars>>

\* The worker ids (from 0) of the non-empty partitions, in order.
Spawned(partitions) ==
  LET nonempty(i) == partitions[i] # <<>>
  IN SelectSeq([i \in 1..Len(partitions) |-> i], nonempty)

\* The merge of the workers' results by test id (all_results.insert), worker
\* after worker.
RECURSIVE MergeWorkers(_, _)
MergeWorkers(all_results, runs) ==
  IF runs = <<>> THEN all_results
  ELSE LET r == Head(runs).results
       IN MergeWorkers([id \in (DOMAIN all_results) \cup (DOMAIN r) |->
                          IF id \in DOMAIN r THEN r[id] ELSE all_results[id]],
                       Tail(runs))

\* What the workers whose parse thread ended well reported, merged.
ReportedResults(runs, trouble) ==
  LET good(w) == runs[w].ok /\ ~(trouble.kind = "panic" /\ trouble.worker = w)
      kept == SelectSeq([w \in 1..Len(runs) |-> w], good)
  IN MergeWorkers(EmptyMap, [i \in 1..Len(kept) |-> runs[kept[i]]])

\* A join loop that skips a worker whose parse thread failed and merges the
\* rest: a faulty variant of JoinParseThreads.
JoinParseThreadsLenient(runs, trouble) ==
  [ok |-> TRUE, results |-> ReportedResults(runs, trouble)]

\* The join loop of run_parallel: the parse thread of each worker is joined in
\* turn; a thread that panicked or whose parser returned Err makes the command
\* return that error, otherwise the workers' results are merged.
JoinParseThreads(runs, trouble) ==
  IF \E w \in 1..Len(runs) :
       ~runs[w].ok \/ (trouble.kind = "panic" /\ trouble.worker = w)
    THEN [ok |-> FALSE, results |-> EmptyMap]
    ELSE [ok |-> TRUE, results |-> MergeWorkers(EmptyMap, runs)]

\* TestRun::count_failures
count_failures(results) ==
  Cardinality({id \in DOMAIN results : is_failure(results[id].status)})

\* The exit code of run_parallel.
ExitCode(results, any_failed) ==
  IF count_failures(results) > 0 \/ any_failed THEN 1 ELSE 0

\* update_test_times_from_run: the duration history takes the known durations
\* of the merged run.
update_test_times_from_run(t, results) == update_times_after_run(t, results)

\* The run ids and the counter after one begin_test_run_raw per spawned worker.
RECURSIVE BeginAll(_, _)
BeginAll(current, n) ==
  IF n = 0 THEN [ids |-> <<>>, next |-> current]
  ELSE LET b == increment_next_stream(current)
           rest == BeginAll(b.next, n - 1)
       IN [ids |-> <<b.id>> \o rest.ids, next |-> rest.next]

\* RunCommand::run_parallel: partition the tests by their stored durations, run
\* one worker per non-empty partition, each with a run file of its own, join
\* the parse threads, wait for the workers, merge their results into a run
\* named by the run id read at the start, update the failing tests and the
\* duration history from that run, and compute the exit code. `limit` bounds
\* the run-id counter.
RunParallelStep(selected, concurrency, partial, limit) ==
  LET base_run_id == next_stream
      inSelected(id) == id \in selected
      all_tests == SelectSeq(AllTests, inSelected)
      read == get_test_times_for_ids(times, all_tests)
  IN /\ next_stream < limit
     /\ read.status = "ok"
     /\ \E before \in {get_failing_tests(failing)} :
        \E parts \in {partition_tests_with_grouping(all_tests, read.map, concurrency,
                                                    None, <<>>).parts} :
        \E spawned \in {Spawned(parts)} :
        \E begun \in {BeginAll(next_stream, Len(spawned))} :
          /\ begun.next <= limit
          /\ \E st \in [selected -> {"success", "fail"}] :
             \E outs \in {[w \in 1..Len(spawned) |-> WorkerOutput(parts[spawned[w]], st)]} :
             \E clean \in {[w \in 1..Len(spawned) |->
                              parse_stream(SerializeAll(outs[w]), UnknownItem)]} :
             \E trouble \in Troubles(Len(spawned)), nonzero \in 0..Len(spawned) :
               /\ trouble.kind # "none" => nonzero = 0
               /\ LET n == Len(spawned)
                      cut(w) == trouble.kind = "protocol" /\ trouble.worker = w
                      written == [w \in 1..n |->
                                    IF cut(w) THEN Append(outs[w], BrokenEvent)
                                    ELSE outs[w]]
                      any_failed == nonzero # 0
                  IN \E fs \in {[id \in (DOMAIN files) \cup Range(begun.ids) |->
                                   IF id \in DOMAIN files THEN Archived
                                   ELSE SerializeAll(
                                          written[CHOOSE w \in 1..n : begun.ids[w] = id])]} :
                     \E runs \in {[w \in 1..n |->
                                     IF cut(w)
                                       THEN parse_stream(SerializeAll(written[w]),
                                                         UnknownItem)
                                       ELSE clean[w]]} :
                     \E joined \in {JoinParseThreads(runs, trouble)} :
                     \E out \in {IF joined.ok
                                   THEN update_repository_failing_tests(
                                          fs, failing, base_run_id, partial)
                                 ELSE Outcome(FALSE, failing)} :
                     \E timed \in {IF out.ok
                                     THEN update_test_times_from_run(times, joined.results)
                                   ELSE [ok |-> FALSE, times |-> times]} :
                     \E seen \in {ReportedResults(runs, trouble)} :
                       LET code == IF out.ok /\ timed.ok
                                     THEN Some(ExitCode(joined.results, any_failed))
                                   ELSE None
                       IN /\ next_stream' = begun.next
                          /\ allocated' = allocated \o begun.ids
                          /\ files' = fs
                          /\ failing' = out.failing
                          /\ times' = timed.times
                          /\ last' = Done("parallel", partial, base_run_id, begun.ids,
                                          Statuses(seen), out.ok /\ timed.ok,
                                          Some([code |-> code, any_failed |-> any_failed,
                                                nonzero |-> nonzero, trouble |-> trouble,
                                                durations |-> KnownDurations(seen)]),
                                          IF ~joined.ok THEN "skipped"
                                          ELSE IF out.ok THEN "ok" ELSE "err",
                                          before)

\* A parallel run of some of the tests.
RunParallel ==
  /\ \E selected \in (SUBSET TestIds) \ {{}}, concurrency \in 2..MaxK, partial \in BOOLEAN :
       RunParallelStep(selected, concurrency, partial, MaxRuns)
  /\ UNCHANGED <<codecVars, partVars, timeVars, workerVars, execVars, pipeVars, scanVars>>

Next == Load \/ RunParallel

\* ---------------------------------------- a parallel run, step by step
\* The control flow of RunCommand::run_parallel from provisioning to its
\* return, with every early return the `?` operators and the thread joins can
\* take. What the workers report is left to the repository specification.
\* w_inst[i] counts the instance_dispose commands run for instance i.

\* Result<i32>
Code(c) == [kind |-> "code", code |-> c, why |-> "returned"]

Err(why) == [kind |-> "err", code |-> -1, why |-> why]

\* The runs the specification starts from: the concurrency k, the number n of
\* non-empty partitions, and whether instance_provision and instance_dispose
\* are configured.
WorkerConfigs ==
  {c \in [k : 2..MaxK, n : 1..MaxK, provision : BOOLEAN, dispose : BOOLEAN] :
     c.n <= c.k}

\* TestCommand::dispose_instances: nothing without instance_dispose; otherwise
\* one command per instance, in order, whose exit status is ignored; when the
\* command of instance `stop` cannot be started the call returns Err and the
\* later instances are left alone. stop = Len(inst) + 1: every command started.
dispose_instances(cfg, inst, stop) ==
  IF ~cfg.dispose THEN [ok |-> TRUE, inst |-> inst]
  ELSE [ok |-> stop > Len(inst),
        inst |-> [i \in 1..Len(inst) |-> IF i < stop THEN inst[i] + 1 ELSE inst[i]]]

\* Where dispose_instances may stop.
Stops(cfg, inst) == IF cfg.dispose THEN 1..(Len(inst) + 1) ELSE {Len(inst) + 1}

\* An early return with the error `why`: the locals are dropped, and with them
\* the InstanceDisposeGuard if it exists, whose drop calls dispose_instances
\* and ignores its result.
Leave(why) ==
  /\ w_pc' = "done"
  /\ w_result' = Some(Err(why))
  /\ w_guard' = FALSE
  /\ IF w_guard
       THEN \E stop \in Stops(Unwrap(w_cfg), w_inst) :
              w_inst' = dispose_instances(Unwrap(w_cfg), w_inst, stop).inst
       ELSE w_inst' = w_inst
  /\ UNCHANGED <<w_cfg, w_workers, w_any_failed>>

\* The first worker in the state `st`, 0 if there is none.
FirstIn(st) ==
  IF \E w \in 1..Len(w_workers) : w_workers[w] = st
    THEN CHOOSE w \in 1..Len(w_workers) :
           /\ w_workers[w] = st
           /\ \A v \in 1..(w - 1) : w_workers[v] # st
    ELSE 0

WorkersInit ==
  /\ w_pc = "start"
  /\ w_cfg \in {Some(c) : c \in WorkerConfigs}
  /\ w_inst = <<>>
  /\ w_guard = FALSE
  /\ w_workers = <<>>
  /\ w_any_failed = FALSE
  /\ w_result = None

\* provision_instances: the ids of k instances, or Err when the configured
\* command fails or prints another number of ids.
Provision ==
  /\ w_pc = "start"
  /\ \E ok \in BOOLEAN :
       /\ ~ok => Unwrap(w_cfg).provision
       /\ IF ok
            THEN /\ w_inst' = [i \in 1..Unwrap(w_cfg).k |-> 0]
                 /\ w_pc' = "provisioned"
                 /\ w_result' = w_result
            ELSE /\ w_inst' = w_inst
                 /\ w_pc' = "done"
                 /\ w_result' = Some(Err("provision"))
  /\ UNCHANGED <<w_cfg, w_guard, w_workers, w_any_failed>>
  /\ UNCHANGED <<codecVars, partVars, repoVars, timeVars, execVars, pipeVars, scanVars>>

\* The message "Provisioned N instances", written when instance_provision is
\* configured, and after it the creation of the InstanceDisposeGuard.
Announce ==
  /\ w_pc = "provisioned"
  /\ \E written \in BOOLEAN :
       /\ ~written => Unwrap(w_cfg).provision
       /\ IF written
            THEN /\ w_guard' = TRUE
                 /\ w_pc' = "spawning"
                 /\ w_result' = w_result
            ELSE /\ w_guard' = w_guard
                 /\ w_pc' = "done"
                 /\ w_result' = Some(Err("output"))
  /\ UNCHANGED <<w_cfg, w_inst, w_workers, w_any_failed>>
  /\ UNCHANGED <<codecVars, partVars, repoVars, timeVars, execVars, pipeVars, scanVars>>

\* One turn of the spawn loop for a non-empty partition: build the command,
\* spawn the process, begin a run file, start the tee, parse and stderr threads.
SpawnWorker ==
  /\ w_pc = "spawning"
  /\ Len(w_workers) < Unwrap(w_cfg).n
  /\ \E how \in {"ok", "spawn"} :
       IF how = "ok"
         THEN /\ w_workers' = Append(w_workers, "running")
              /\ w_pc' = IF Len(w_workers) + 1 = Unwrap(w_cfg).n
                           THEN "joining" ELSE "spawning"
              /\ UNCHANGED <<w_cfg, w_inst, w_guard, w_any_failed, w_result>>
         ELSE Leave(how)
  /\ UNCHANGED <<codecVars, partVars, repoVars, timeVars, execVars, pipeVars, scanVars>>

\* One turn of the first collecting loop: join the parse thread, the tee
\* thread and the stderr thread of the next worker and keep its results.
JoinThreads ==
  /\ w_pc = "joining"
  /\ \E how \in {"ok", "panic", "parse"} :
       IF how = "ok"
         THEN /\ w_workers' = [w_workers EXCEPT ![FirstIn("running")] = "joined"]
              /\ w_pc' = IF FirstIn("running") = Len(w_workers)
                           THEN "waiting" ELSE "joining"
              /\ UNCHANGED <<w_cfg, w_inst, w_guard, w_any_failed, w_result>>
         ELSE Leave(how)
  /\ UNCHANGED <<codecVars, partVars, repoVars, timeVars, execVars, pipeVars, scanVars>>

\* One turn of the second loop: child.wait() on the next worker; a status
\* that is not success sets any_failed.
WaitWorker ==
  /\ w_pc = "waiting"
  /\ \E how \in {"success", "nonzero", "wait"} :
       IF how = "wait" THEN Leave(how)
       ELSE /\ w_workers' = [w_workers EXCEPT ![FirstIn("joined")] = "waited"]
            /\ w_any_failed' = (w_any_failed \/ how = "nonzero")
            /\ w_pc' = IF FirstIn("joined") = Len(w_workers)
                         THEN "store" ELSE "waiting"
            /\ UNCHANGED <<w_cfg, w_inst, w_guard, w_result>>
  /\ UNCHANGED <<codecVars, partVars, repoVars, timeVars, execVars, pipeVars, scanVars>>

\* The update of the failing tests and of the duration history from the
\* combined run.
UpdateStore ==
  /\ w_pc = "store"
  /\ \E ok \in BOOLEAN :
       IF ok
         THEN /\ w_pc' = "drop"
              /\ UNCHANGED <<w_cfg, w_inst, w_guard, w_workers, w_any_failed, w_result>>
         ELSE Leave("store")
  /\ UNCHANGED <<codecVars, partVars, repoVars, timeVars, execVars, pipeVars, scanVars>>

\* drop(dispose_guard)
DropGuard ==
  /\ w_pc = "drop"
  /\ \E stop \in Stops(Unwrap(w_cfg), w_inst) :
       w_inst' = dispose_instances(Unwrap(w_cfg), w_inst, stop).inst
  /\ w_guard' = FALSE
  /\ w_pc' = "dispose"
  /\ UNCHANGED <<w_cfg, w_workers, w_any_failed, w_result>>
  /\ UNCHANGED <<codecVars, partVars, repoVars, timeVars, execVars, pipeVars, scanVars>>

\* test_cmd.dispose_instances(&instance_ids)? after the drop, the message
\* "Disposed instances", the summary, and the exit code: 1 when the combined
\* run counts a failure or a worker exited non-zero.
DisposeAndReturn ==
  /\ w_pc = "dispose"
  /\ \E stop \in Stops(Unwrap(w_cfg), w_inst), written \in BOOLEAN, failures \in BOOLEAN :
       LET d == dispose_instances(Unwrap(w_cfg), w_inst, stop)
       IN /\ w_inst' = d.inst
          /\ w_result' = IF ~d.ok THEN Some(Err("dispose"))
                         ELSE IF ~written THEN Some(Err("output"))
                         ELSE Some(Code(IF failures \/ w_any_failed THEN 1 ELSE 0))
  /\ w_pc' = "done"
  /\ UNCHANGED <<w_cfg, w_guard, w_workers, w_any_failed>>
  /\ UNCHANGED <<codecVars, partVars, repoVars, timeVars, execVars, pipeVars, scanVars>>

WorkersNext ==
  \/ Provision
  \/ Announce
  \/ SpawnWorker
  \/ JoinThreads
  \/ WaitWorker
  \/ UpdateStore
  \/ DropGuard
  \/ DisposeAndReturn

\* ------------------------------------- execute: loop and isolated mode
\* RunCommand::execute once the tests and the concurrency are determined: a
\* single run or the until-failure loop, over parallel runs (concurrency > 1)
\* or isolated runs. e_history holds the outcome of every iteration begun and
\* ended; the terminal is taken to accept the banners of the loop.

\* The options of one `run` command.
ExecConfigs ==
  [isolated : BOOLEAN, until_failure : BOOLEAN, partial : BOOLEAN,
   tests : (SUBSET TestIds) \ {{}}, concurrency : 2..MaxK]

\* A loop that goes on whatever the exit code: a faulty variant of
\* LoopDecision.
LoopDecisionDeaf(until_failure, outcome) ==
  IF until_failure /\ outcome.kind = "code" THEN "again" ELSE "return"

\* What execute does with the outcome of a run: without --until-failure it
\* returns it; in the loop an error (`?`) and a non-zero exit code return, and
\* exit code 0 starts the next iteration.
LoopDecision(until_failure, outcome) ==
  IF until_failure /\ outcome = Code(0) THEN "again" ELSE "return"

\* The tests of the command, in listing order.
ExecTests ==
  LET chosen(id) == id \in Unwrap(e_cfg).tests
  IN SelectSeq(AllTests, chosen)

\* The run-id counter the loop may reach.
LoopRunLimit == MaxIterations * MaxK

ExecInit ==
  /\ e_pc = "run"
  /\ e_cfg \in {Some(c) : c \in ExecConfigs}
  /\ e_idx = 0
  /\ e_alive = {}
  /\ e_all_results = EmptyMap
  /\ e_any_failed = FALSE
  /\ e_history = <<>>
  /\ e_result = None

\* The end of one run inside execute: its outcome is recorded, and execute
\* returns it or begins the next iteration.
EndRun(outcome) ==
  /\ e_history' = Append(e_history, outcome)
  /\ IF LoopDecision(Unwrap(e_cfg).until_failure, outcome) = "again"
       THEN /\ e_pc' = "run"
            /\ e_result' = e_result
            /\ e_idx' = 0
            /\ e_all_results' = EmptyMap
            /\ e_any_failed' = FALSE
       ELSE /\ e_pc' = "done"
            /\ e_result' = Some(outcome)
            /\ UNCHANGED <<e_idx, e_all_results, e_any_failed>>
  /\ UNCHANGED <<e_cfg, e_alive>>

\* One run_parallel call of execute, alone or as an iteration of the loop.
Iterate ==
  /\ e_pc = "run"
  /\ ~Unwrap(e_cfg).isolated
  /\ Len(e_history) < MaxIterations
  /\ RunParallelStep(Unwrap(e_cfg).tests, Unwrap(e_cfg).concurrency,
                     Unwrap(e_cfg).partial, LoopRunLimit)
  /\ EndRun(IF Unwrap(last').ok
              THEN Code(Unwrap(Unwrap(Unwrap(last').run).code))
              ELSE Err("run"))
  /\ UNCHANGED <<codecVars, partVars, timeVars, workerVars, pipeVars, scanVars>>

\* run_isolated, one turn of its loop, first half: Command::output() starts
\* the process of the next test.
IsolatedSpawn ==
  /\ e_pc = "run"
  /\ Unwrap(e_cfg).isolated
  /\ Len(e_history) < MaxIterations
  /\ e_alive = {}
  /\ e_idx < Len(ExecTests)
  /\ \E started \in BOOLEAN :
       IF started
         THEN /\ e_alive' = {e_idx + 1}
              /\ UNCHANGED <<e_pc, e_cfg, e_idx, e_all_results, e_any_failed,
                             e_history, e_result>>
         ELSE EndRun(Err("spawn"))
  /\ UNCHANGED <<codecVars, partVars, repoVars, timeVars, workerVars, pipeVars, scanVars>>

\* Second half: Command::output() returns when the process has ended; its
\* status sets any_failed, its stdout is parsed and the results are inserted
\* into all_results.
IsolatedCollect ==
  /\ e_pc = "run"
  /\ e_alive # {}
  /\ \E st \in {"success", "fail"}, nonzero \in BOOLEAN, broken \in BOOLEAN :
       LET id == ExecTests[e_idx + 1]
           stdout == IF broken THEN Append(WorkerEvents(id, st), BrokenEvent)
                     ELSE WorkerEvents(id, st)
           test_run == parse_stream(SerializeAll(stdout), UnknownItem)
       IN IF test_run.ok
            THEN /\ e_all_results' = MergeWorkers(e_all_results, <<test_run>>)
                 /\ e_any_failed' = (e_any_failed \/ nonzero)
                 /\ e_idx' = e_idx + 1
                 /\ e_alive' = {}
                 /\ UNCHANGED <<e_pc, e_cfg, e_history, e_result>>
            ELSE /\ e_history' = Append(e_history, Err("parse"))
                 /\ e_pc' = "done"
                 /\ e_result' = Some(Err("parse"))
                 /\ e_alive' = {}
                 /\ UNCHANGED <<e_cfg, e_idx, e_all_results, e_any_failed>>
  /\ UNCHANGED <<codecVars, partVars, repoVars, timeVars, workerVars, pipeVars, scanVars>>

\* The end of run_isolated: the combined run takes the run id read at the
\* start, no run file having been begun; the failing tests and the duration
\* history are updated from it, and the exit code is computed.
IsolatedFinish ==
  /\ e_pc = "run"
  /\ Unwrap(e_cfg).isolated
  /\ e_alive = {}
  /\ e_idx = Len(ExecTests)
  /\ LET base_run_id == next_stream
         out == update_repository_failing_tests(files, failing, base_run_id,
                                                Unwrap(e_cfg).partial)
         timed == IF out.ok THEN update_test_times_from_run(times, e_all_results)
                  ELSE [ok |-> FALSE, times |-> times]
     IN /\ failing' = out.failing
        /\ times' = timed.times
        /\ IF out.ok /\ timed.ok
             THEN /\ EndRun(Code(ExitCode(e_all_results, e_any_failed)))
             ELSE /\ e_history' = Append(e_history, Err("store"))
                  /\ e_pc' = "done"
                  /\ e_result' = Some(Err("store"))
                  /\ UNCHANGED <<e_cfg, e_alive, e_idx, e_all_results, e_any_failed>>
  /\ UNCHANGED <<next_stream, files, allocated, last>>
  /\ UNCHANGED <<codecVars, partVars, timeVars, workerVars, pipeVars, scanVars>>

ExecNext == Iterate \/ IsolatedSpawn \/ IsolatedCollect \/ IsolatedFinish

\* ------------------------------- the output pipeline of a run, step by step
\* One byte of a child's stdout. Its position tells it from every other byte
\* of the stream; its kind is what the parser makes of the item it completes:
\* "event" a well-formed event, "bad" an event with a malformed timestamp
\* (convert_timestamp fails: a protocol error), "junk" the unparseable chunk
\* that brings consecutive_errors to MAX_CONSECUTIVE_ERRORS.
StreamByte(pos, kind) == [pos |-> pos, kind |-> kind]

\* The outputs of a child of a length in `lengths` where the byte at a
\* position in `stops`, if there is one, ends the parsing, as a malformed
\* timestamp or as too many unparseable chunks.
ChildOutputs(lengths, stops) ==
  { [i \in 1..n |-> StreamByte(i, IF i = at THEN kind ELSE "event")] :
      n \in lengths, at \in stops, kind \in {"bad", "junk"} }

\* A serial run: any output of at most MaxOutput bytes, the parser stopping
\* anywhere or nowhere.
SerialOutputs == ChildOutputs(0..MaxOutput, 0..MaxOutput)

\* A parallel run: every child writes MaxOutput - 1 bytes, and a parser that
\* stops does so at the first byte, while its child is still writing.
ParallelOutputs == ChildOutputs({MaxOutput - 1}, {0, 1})

\* The threads of one worker that the run joins.
Threads == {"parse", "tee", "stderr"}

RECURSIVE Flatten(_)
\* The bytes of a sequence of chunks.
Flatten(chunks) ==
  IF chunks = <<>> THEN <<>> ELSE Head(chunks) \o Flatten(Tail(chunks))

IsPrefix(s, t) == Len(s) <= Len(t) /\ SubSeq(t, 1, Len(s)) = s

\* A channel that never fills: a faulty variant of ChannelHasRoom.
ChannelUnbounded(chunks) == TRUE

\* sync_channel(100): send blocks while the buffer holds `capacity` chunks
ChannelHasRoom(chunks) == Len(chunks) < ChannelCapacity

\* A write to the raw sink whose failure goes unnoticed: a faulty variant of
\* write_all.
write_all_unchecked(chunk, room) ==
  [ok |-> TRUE,
   written |-> SubSeq(chunk, 1, IF Len(chunk) <= room THEN Len(chunk) ELSE room)]

\* TeeWriter::write, self.writer.write_all(buf)?: the chunk goes to the raw
\* sink whole, or the write fails when the sink has room for `room` bytes
\* only, having written those.
write_all(chunk, room) ==
  IF Len(chunk) <= room THEN [ok |-> TRUE, written |-> chunk]
  ELSE [ok |-> FALSE, written |-> SubSeq(chunk, 1, room)]

\* A copy that leaves the position where it was: a faulty variant of
\* ReaderCopy.
ReaderCopyRewinding(buffer, pos, size) ==
  LET to_copy == IF Len(buffer) - pos < size THEN Len(buffer) - pos ELSE size
  IN [data |-> SubSeq(buffer, pos + 1, pos + to_copy), pos |-> pos]

\* ChannelReader::read, the buffered branch: copy min(remaining, buf.len())
\* bytes from self.pos and advance self.pos
ReaderCopy(buffer, pos, size) ==
  LET to_copy == IF Len(buffer) - pos < size THEN Len(buffer) - pos ELSE size
  IN [data |-> SubSeq(buffer, pos + 1, pos + to_copy), pos |-> pos + to_copy]

\* What parse_stream_with_progress does on the bytes of one read: it returns
\* Err at a malformed timestamp, leaves its loop at the last of too many
\* unparseable chunks, and reads on otherwise.
ParserAfter(data) ==
  LET stops == {i \in 1..Len(data) : data[i].kind # "event"}
  IN IF stops = {} THEN "reading"
     ELSE LET first == CHOOSE i \in stops : \A j \in stops : i <= j
          IN IF data[first].kind = "bad" THEN "err" ELSE "stopped"

\* A run that waits for its child as soon as the threads of the first worker
\* are joined: a faulty variant of AfterJoins.
AfterJoinsWaitEarly(mode, w, n) == [step |-> "wait", w |-> 1]

\* run_parallel joins the threads of the next worker, and waits for the
\* children once the threads of every worker are joined; run_serial is done.
AfterJoins(mode, w, n) ==
  IF mode = "serial" THEN [step |-> "returned", w |-> w]
  ELSE IF w < n THEN [step |-> "join_parse", w |-> w + 1]
  ELSE [step |-> "wait", w |-> 1]

\* run_serial joins its threads after the wait; run_parallel waits for the
\* next child and is done after the last.
AfterWait(mode, w, n) ==
  IF mode = "serial" THEN [step |-> "join_parse", w |-> w]
  ELSE IF w < n THEN [step |-> "wait", w |-> w + 1]
  ELSE [step |-> "returned", w |-> w]

\* Outside SpecPipeline no pipeline is running.
PipeIdle ==
  /\ s_mode = "idle" /\ s_out = <<>> /\ s_child = <<>> /\ s_pipe = <<>>
  /\ s_tee = <<>> /\ s_sink = <<>> /\ s_chan = <<>> /\ s_reader = <<>>
  /\ s_parser = <<>> /\ s_stderr = <<>> /\ s_pc = None /\ s_joined = <<>>
  /\ s_waited = <<>> /\ s_result = None

\* The children are spawned with their stdout and stderr piped, and the tee,
\* stderr and parse threads of each are started: one child in run_serial,
\* one for each partition in run_parallel, here two. The raw sink of each
\* worker has room for a number of bytes of `rooms`.
PipelineStart(modes, rooms) ==
  /\ s_mode \in modes
  /\ \E n \in {IF s_mode = "serial" THEN 1 ELSE 2} :
       /\ s_out \in [1..n -> IF n = 1 THEN SerialOutputs ELSE ParallelOutputs]
       /\ s_child = [w \in 1..n |-> [written |-> 0, exited |-> FALSE]]
       /\ s_pipe = [w \in 1..n |-> <<>>]
       /\ s_tee \in [1..n -> [pc : {"copy"}, buf : {<<>>}, room : rooms]]
       /\ s_sink = [w \in 1..n |-> <<>>]
       /\ s_chan = [w \in 1..n |-> [chunks |-> <<>>, tx |-> TRUE, rx |-> TRUE]]
       /\ s_reader = [w \in 1..n |-> [buffer |-> <<>>, pos |-> 0]]
       /\ s_parser = [w \in 1..n |-> [pc |-> "reading", bytes |-> <<>>]]
       /\ s_stderr = [w \in 1..n |-> "reading"]
       /\ s_joined = [w \in 1..n |-> {}]
       /\ s_waited = [w \in 1..n |-> FALSE]
  /\ s_pc = Some(IF s_mode = "serial" THEN [step |-> "wait", w |-> 1]
                                       ELSE [step |-> "join_parse", w |-> 1])
  /\ s_result = None

\* A run whose raw sinks take every byte.
PipelineInit == PipelineStart({"serial", "parallel"}, {MaxOutput})

PipeWorkers == DOMAIN s_out

\* The child writes a byte to its stdout; the write blocks while the pipe is
\* full, and fails once the tee thread has dropped the other end.
ChildWrite ==
  \E w \in PipeWorkers :
    /\ ~s_child[w].exited
    /\ s_tee[w].pc # "failed"
    /\ s_child[w].written < Len(s_out[w])
    /\ Len(s_pipe[w]) < PipeCapacity
    /\ s_pipe' = [s_pipe EXCEPT ![w] = Append(@, s_out[w][s_child[w].written + 1])]
    /\ s_child' = [s_child EXCEPT ![w].written = @ + 1]
    /\ UNCHANGED <<s_mode, s_out, s_tee, s_sink, s_chan, s_reader, s_parser,
                   s_stderr, s_pc, s_joined, s_waited, s_result>>

\* The child has written all its output, or its stdout is a broken pipe: it
\* closes its pipes and exits.
ChildExit ==
  \E w \in PipeWorkers :
    /\ ~s_child[w].exited
    /\ s_child[w].written = Len(s_out[w]) \/ s_tee[w].pc = "failed"
    /\ s_child' = [s_child EXCEPT ![w].exited = TRUE]
    /\ UNCHANGED <<s_mode, s_out, s_pipe, s_tee, s_sink, s_chan, s_reader,
                   s_parser, s_stderr, s_pc, s_joined, s_waited, s_result>>

\* spawn_stdout_tee, std::io::copy: a read of the child's stdout, which
\* returns some of the bytes in the pipe, or 0 once the pipe is empty and
\* closed; TeeWriter::write then writes the chunk to the raw sink, and when
\* that write fails the thread ends with the error, the chunk unsent, and
\* drops the child's stdout and the sender. At the end of the stream the
\* thread flushes and ends, which drops the sender.
TeeCopy ==
  \E w \in PipeWorkers :
    /\ s_tee[w].pc = "copy"
    /\ \/ /\ s_pipe[w] # <<>>
          /\ \E n \in 1..Len(s_pipe[w]) :
             \E put \in {write_all(SubSeq(s_pipe[w], 1, n), s_tee[w].room)} :
               /\ s_tee' = [s_tee EXCEPT ![w] =
                              [pc |-> IF put.ok THEN "send" ELSE "failed",
                               buf |-> SubSeq(s_pipe[w], 1, n),
                               room |-> @.room - Len(put.written)]]
               /\ s_sink' = [s_sink EXCEPT ![w] = @ \o put.written]
               /\ s_pipe' = [s_pipe EXCEPT ![w] = SubSeq(@, n + 1, Len(@))]
               /\ s_chan' = [s_chan EXCEPT ![w].tx = put.ok]
       \/ /\ s_pipe[w] = <<>>
          /\ s_child[w].exited
          /\ s_tee' = [s_tee EXCEPT ![w].pc = "done", ![w].buf = <<>>]
          /\ s_chan' = [s_chan EXCEPT ![w].tx = FALSE]
          /\ UNCHANGED <<s_sink, s_pipe>>
    /\ UNCHANGED <<s_mode, s_out, s_child, s_reader, s_parser, s_stderr, s_pc,
                   s_joined, s_waited, s_result>>

\* TeeWriter::write, self.tx.send(buf.to_vec()): the send blocks while the
\* channel is full; with the receiver dropped it fails at once and the
\* failure is ignored.
TeeSend ==
  \E w \in PipeWorkers :
    /\ s_tee[w].pc = "send"
    /\ \/ /\ s_chan[w].rx
          /\ ChannelHasRoom(s_chan[w].chunks)
          /\ s_chan' = [s_chan EXCEPT ![w].chunks = Append(@, s_tee[w].buf)]
       \/ /\ ~s_chan[w].rx
          /\ UNCHANGED s_chan
    /\ s_tee' = [s_tee EXCEPT ![w].pc = "copy", ![w].buf = <<>>]
    /\ UNCHANGED <<s_mode, s_out, s_child, s_pipe, s_sink, s_reader, s_parser,
                   s_stderr, s_pc, s_joined, s_waited, s_result>>

\* The parse thread: one ChannelReader::read into a buffer of `size` bytes
\* (buffered bytes first, else a recv that blocks until a chunk arrives or
\* the sender is dropped), and what the parser does with the bytes. When
\* parse_stream_with_progress returns, the reader and its receiver are
\* dropped.
ParserRead ==
  \E w \in PipeWorkers, size \in 1..MaxRead :
    /\ s_parser[w].pc = "reading"
    /\ LET buffered == s_reader[w].pos < Len(s_reader[w].buffer)
           received == ~buffered /\ s_chan[w].chunks # <<>>
           closed == ~buffered /\ s_chan[w].chunks = <<>> /\ ~s_chan[w].tx
           buffer == IF buffered THEN s_reader[w].buffer
                     ELSE Head(s_chan[w].chunks)
           pos == IF buffered THEN s_reader[w].pos ELSE 0
           copy == ReaderCopy(buffer, pos, size)
           after == ParserAfter(copy.data)
       IN \/ /\ buffered \/ received
             /\ s_reader' = [s_reader EXCEPT ![w] = [buffer |-> buffer,
                                                     pos |-> copy.pos]]
             /\ s_parser' = [s_parser EXCEPT ![w] =
                               [pc |-> after, bytes |-> @.bytes \o copy.data]]
             /\ s_chan' = [s_chan EXCEPT
                             ![w].chunks = IF received THEN Tail(@) ELSE @,
                             ![w].rx = (after = "reading")]
          \/ /\ closed
             /\ s_parser' = [s_parser EXCEPT ![w].pc = "eof"]
             /\ s_chan' = [s_chan EXCEPT ![w].rx = FALSE]
             /\ UNCHANGED s_reader
    /\ UNCHANGED <<s_mode, s_out, s_child, s_pipe, s_tee, s_sink, s_stderr,
                   s_pc, s_joined, s_waited, s_result>>

\* spawn_stderr_forwarder: the thread forwards the child's stderr and ends
\* when the child has closed it.
StderrDrain ==
  \E w \in PipeWorkers :
    /\ s_stderr[w] = "reading"
    /\ s_child[w].exited
    /\ s_stderr' = [s_stderr EXCEPT ![w] = "done"]
    /\ UNCHANGED <<s_mode, s_out, s_child, s_pipe, s_tee, s_sink, s_chan,
                   s_reader, s_parser, s_pc, s_joined, s_waited, s_result>>

\* parse_thread.join()??: the run takes the result of the parse thread and
\* returns its error, if it is one, at once.
JoinParse ==
  /\ IsSome(s_pc) /\ Unwrap(s_pc).step = "join_parse"
  /\ LET w == Unwrap(s_pc).w
     IN /\ s_parser[w].pc # "reading"
        /\ s_joined' = [s_joined EXCEPT ![w] = @ \cup {"parse"}]
        /\ IF s_parser[w].pc = "err"
           THEN /\ s_pc' = Some([step |-> "returned", w |-> w])
                /\ s_result' = Some(Err("parse"))
           ELSE /\ s_pc' = Some([step |-> "join_tee", w |-> w])
                /\ UNCHANGED s_result
  /\ UNCHANGED <<s_mode, s_out, s_child, s_pipe, s_tee, s_sink, s_chan,
                 s_reader, s_parser, s_stderr, s_waited>>

\* tee_thread.join()?.map_err(Error::Io)?: the run takes the result of the
\* tee thread and returns its error, if it is one, at once.
JoinTee ==
  /\ IsSome(s_pc) /\ Unwrap(s_pc).step = "join_tee"
  /\ LET w == Unwrap(s_pc).w
     IN /\ s_tee[w].pc \in {"done", "failed"}
        /\ s_joined' = [s_joined EXCEPT ![w] = @ \cup {"tee"}]
        /\ IF s_tee[w].pc = "failed"
           THEN /\ s_pc' = Some([step |-> "returned", w |-> w])
                /\ s_result' = Some(Err("tee"))
           ELSE /\ s_pc' = Some([step |-> "join_stderr", w |-> w])
                /\ UNCHANGED s_result
  /\ UNCHANGED <<s_mode, s_out, s_child, s_pipe, s_tee, s_sink, s_chan,
                 s_reader, s_parser, s_stderr, s_waited>>

\* stderr_thread.join(), and where the run goes from there
JoinStderr ==
  /\ IsSome(s_pc) /\ Unwrap(s_pc).step = "join_stderr"
  /\ LET w == Unwrap(s_pc).w
         next == AfterJoins(s_mode, w, Len(s_out))
     IN /\ s_stderr[w] = "done"
        /\ s_joined' = [s_joined EXCEPT ![w] = @ \cup {"stderr"}]
        /\ s_pc' = Some(next)
        /\ s_result' = IF next.step = "returned" THEN Some(Code(0)) ELSE s_result
  /\ UNCHANGED <<s_mode, s_out, s_child, s_pipe, s_tee, s_sink, s_chan,
                 s_reader, s_parser, s_stderr, s_waited>>

\* child.wait(): returns once the child has exited
WaitChild ==
  /\ IsSome(s_pc) /\ Unwrap(s_pc).step = "wait"
  /\ LET w == Unwrap(s_pc).w
         next == AfterWait(s_mode, w, Len(s_out))
     IN /\ s_child[w].exited
        /\ s_waited' = [s_waited EXCEPT ![w] = TRUE]
        /\ s_pc' = Some(next)
        /\ s_result' = IF next.step = "returned" THEN Some(Code(0)) ELSE s_result
  /\ UNCHANGED <<s_mode, s_out, s_child, s_pipe, s_tee, s_sink, s_chan,
                 s_reader, s_parser, s_stderr, s_joined>>

PipelineNext ==
  /\ \/ ChildWrite \/ ChildExit \/ TeeCopy \/ TeeSend \/ ParserRead
     \/ StderrDrain \/ JoinParse \/ JoinTee \/ JoinStderr \/ WaitChild
  /\ UNCHANGED <<codecVars, partVars, repoVars, timeVars, workerVars, execVars,
                 scanVars>>

\* ------------------------------------------ the parser with progress
\* ScannedItem::Bytes with its content
StrayItem(data) == [kind |-> "bytes", data |-> data]

\* convert_status_with_progress: the ProgressStatus of a terminal status
ProgressStatus(status) ==
  CASE status = "success" -> "Success"
    [] status = "fail" -> "Failed"
    [] status = "skip" -> "Skipped"
    [] status = "xfail" -> "ExpectedFailure"
    [] status = "uxsuccess" -> "UnexpectedSuccess"
    [] OTHER -> "none"

\* matches!(progress_status, Failed | UnexpectedSuccess)
ProgressFailure(progress_status) ==
  progress_status \in {"Failed", "UnexpectedSuccess"}

\* The loop state of parse_stream_with_progress before the first item: that
\* of parse_stream, the output buffered for the current test, the attachments
\* pending for each test, and the calls made so far of bytes_callback
\* (`forwarded`, each with the index of the item that caused it) and of
\* progress_callback (`progress`).
ProgressInit ==
  [results |-> EmptyMap, start_times |-> EmptyMap, consecutive_errors |-> 0,
   stopped |-> FALSE, error |-> FALSE, current_test_output |-> <<>>,
   pending_attachments |-> EmptyMap, forwarded |-> <<>>, progress |-> <<>>]

\* The ScannedItem::Bytes arm: forward at once under All, buffer for the
\* current test under FailuresOnly. A buffered chunk remembers the index of
\* its item.
ProgressBytes(s, item, filter, at) ==
  LET chunk == [data |-> item.data, from |-> at]
  IN IF filter = "All"
       THEN [s EXCEPT !.consecutive_errors = 0,
                      !.forwarded = Append(@, [at |-> at, what |-> "output",
                                                chunks |-> <<chunk>>])]
       ELSE [s EXCEPT !.consecutive_errors = 0,
                      !.current_test_output = Append(@, chunk)]

\* An event of status Undefined that carries a file: the file is kept for
\* its test until the status of the test is known; the tags of the event go
\* in front when this is the first file of the test.
ProgressAttachment(s, e, at) ==
  LET id == Unwrap(e.test_id)
      before == IF id \in DOMAIN s.pending_attachments
                  THEN s.pending_attachments[id] ELSE <<>>
      pushed == Append(before, [name |-> "traceback", content |-> Unwrap(e.file),
                                from |-> at])
      tagged == IF Len(pushed) = 1 /\ IsSome(e.tags)
                  THEN <<[name |-> "_tags", content |-> Unwrap(e.tags),
                          from |-> at]>> \o pushed
                  ELSE pushed
  IN [s EXCEPT !.consecutive_errors = 0,
               !.pending_attachments = Put(@, id, tagged)]

\* "Show any buffered output for this test": under All whatever is buffered,
\* under FailuresOnly only for a failure; the buffer is emptied.
ForwardBuffered(s, progress_status, filter, at) ==
  LET show == /\ s.current_test_output # <<>>
              /\ filter = "All" \/ ProgressFailure(progress_status)
  IN [s EXCEPT !.forwarded =
                 IF show THEN Append(@, [at |-> at, what |-> "output",
                                         chunks |-> s.current_test_output])
                 ELSE @,
               !.current_test_output = <<>>]

\* "Flush any pending file attachments": the attachments of the test are
\* taken from the map, and shown under All, or for a failure.
ForwardAttachments(s, id, progress_status, filter, at) ==
  IF id \notin DOMAIN s.pending_attachments THEN s
  ELSE LET attachments == s.pending_attachments[id]
           should_show == filter = "All" \/ ProgressFailure(progress_status)
       IN [s EXCEPT !.pending_attachments = Remove(@, id),
                    !.forwarded =
                      IF should_show /\ attachments # <<>>
                        THEN Append(@, [at |-> at, what |-> "attachments",
                                        chunks |-> attachments])
                        ELSE @]

\* A parser with progress that keeps the whole seconds of a duration only: a
\* faulty variant of ProgressDuration.
ProgressDurationWholeSeconds(s, e) ==
  LET d == EventDuration(s, e)
  IN IF IsSome(d) THEN Some(as_secs_ms(Unwrap(d))) ELSE None

\* "Calculate duration from start/stop timestamps", lines 352-364
ProgressDuration(s, e) == EventDuration(s, e)

\* The ScannedItem::Event arm of parse_stream_with_progress.
ProgressEvent(s, e, filter, at) ==
  LET s0 == [s EXCEPT !.consecutive_errors = 0]
      id == Unwrap(e.test_id)
      status == convert_subunit_status(e.status)
      progress_status == ProgressStatus(e.status)
      called(t, p) == [t EXCEPT !.progress = Append(@, <<id, p>>)]
      failed(t) == [t EXCEPT !.stopped = TRUE, !.error = TRUE]
  IN IF ~IsSome(e.test_id) THEN s0
     ELSE IF e.status = "undefined" /\ IsSome(e.file)
       THEN ProgressAttachment(s0, e, at)
     ELSE IF e.status = "inprogress" THEN
       LET started == [called(s0, "InProgress") EXCEPT !.current_test_output = <<>>]
       IN IF ~IsSome(e.timestamp) THEN started
          ELSE IF ~IsSome(convert_timestamp(Unwrap(e.timestamp)))
            THEN failed(started)
          ELSE [started EXCEPT !.start_times =
                  Put(@, id, Unwrap(convert_timestamp(Unwrap(e.timestamp))))]
     ELSE IF status = "none" THEN s0
     ELSE
       LET shown == ForwardBuffered(
                      ForwardAttachments(called(s0, progress_status), id,
                                         progress_status, filter, at),
                      progress_status, filter, at)
       IN IF /\ id \in DOMAIN s.start_times
             /\ IsSome(e.timestamp)
             /\ ~IsSome(convert_timestamp(Unwrap(e.timestamp)))
            THEN failed(shown)
            ELSE [shown EXCEPT !.results =
                    Put(@, id,
                        TestResult(id, status, ProgressDuration(s, e), e.file,
                                   e.file,
                                   IF IsSome(e.tags) THEN Unwrap(e.tags) ELSE <<>>))]

\* One iteration of the loop of parse_stream_with_progress on item number at.
ProgressStep(s, item, filter, at) ==
  IF s.stopped THEN s
  ELSE CASE item.kind = "event" -> ProgressEvent(s, item.ev, filter, at)
         [] item.kind = "bytes" -> ProgressBytes(s, item, filter, at)
         [] OTHER -> ParseError(s)

RECURSIVE ProgressItems(_, _, _, _, _)
\* The loop of parse_stream_with_progress over items lo..hi, the first half
\* and then the second.
ProgressItems(s, items, filter, lo, hi) ==
  IF lo > hi THEN s
  ELSE IF lo = hi THEN ProgressStep(s, items[lo], filter, lo)
  ELSE LET mid == (lo + hi) \div 2
       IN CHOOSE whole \in {ProgressItems(half, items, filter, mid + 1, hi) :
                             half \in {ProgressItems(s, items, filter, lo, mid)}} :
            TRUE

\* parse_stream_with_progress on the items of the stream: the result as
\* parse_stream gives it, and the calls of the two callbacks.
parse_stream_with_progress(items, filter) ==
  LET s == ProgressItems(ProgressInit, items, filter, 1, Len(items))
  IN [ok |-> ~s.error,
      results |-> IF s.error THEN EmptyMap ELSE s.results,
      forwarded |-> s.forwarded,
      progress |-> s.progress]

RECURSIVE ParseRange(_, _, _, _)
\* The loop of parse_stream over items lo..hi, the first half and then the
\* second.
ParseRange(s, items, lo, hi) ==
  IF lo > hi THEN s
  ELSE IF lo = hi THEN ParseStep(s, items[lo])
  ELSE LET mid == (lo + hi) \div 2
       IN CHOOSE whole \in {ParseRange(half, items, mid + 1, hi) :
                             half \in {ParseRange(s, items, lo, mid)}} : TRUE

\* parse_stream on the items of the stream.
ParseScanned(items) ==
  LET s == ParseRange(ParseInit, items, 1, Len(items))
  IN IF s.error THEN [ok |-> FALSE, results |-> EmptyMap]
     ELSE [ok |-> TRUE, results |-> s.results]

\* ------------------------------- the parser with progress: specification
\* What a stream is made of here: an item, or a run of unparseable items.
Run(n, item) == [i \in 1..n |-> item]

\* The events of the first test: starts and ends with timestamps that give a
\* positive, a negative and no duration, a malformed timestamp, an
\* attachment, and an event that only lists the test.
FirstTestEvents ==
  {Event(Some("a.x1"), "inprogress", Some(ts), None, None) :
     ts \in {Timestamp(500), Timestamp(3000), BadTimestamp}}
  \cup {Event(Some("a.x1"), "success", ts, None, None) :
          ts \in {None, Some(Timestamp(2000)), Some(BadTimestamp)}}
  \cup {Event(Some("a.x1"), "fail", Some(Timestamp(2000)), Some(<<"slow">>),
              Some("Traceback")),
        Event(Some("a.x1"), "undefined", None, Some(<<"slow">>), Some("log")),
        Event(Some("a.x1"), "enumeration", Some(Timestamp(1000)), None, None)}

\* The events of a second test, without timestamps.
SecondTestEvents ==
  {Event(Some("b.y1"), st, None, None, None) :
     st \in {"inprogress", "fail", "skip"}}

\* The pieces of a stream: an event, stray output, an unparseable item, a
\* read error, and a run of unparseable items one short of the bound, alone
\* and followed by stray output or by an event.
StreamPieces ==
  {<<EventItem(e)>> : e \in FirstTestEvents \cup SecondTestEvents}
  \cup {<<StrayItem("print")>>, <<UnknownItem>>, <<ErrItem>>,
        Run(MAX_CONSECUTIVE_ERRORS - 1, UnknownItem),
        Append(Run(MAX_CONSECUTIVE_ERRORS - 1, UnknownItem), StrayItem("print")),
        Append(Run(MAX_CONSECUTIVE_ERRORS - 1, UnknownItem),
               EventItem(Event(Some("b.y1"), "inprogress", None, None, None)))}

OutputFilter == {"FailuresOnly", "All"}

ProgressIdle == g_phase = "idle" /\ g_in = None /\ g_out = None

\* A stream of at most MaxPieces pieces is about to be read.
ProgressSpecCalls ==
  /\ g_phase = "input"
  /\ \E pieces \in SeqsUpTo(StreamPieces, MaxPieces), filter \in OutputFilter :
       g_in = Some([items |-> Flatten(pieces), filter |-> filter])
  /\ g_out = None

\* parse_stream(reader, run_id)
ParsePlain ==
  /\ g_phase = "input"
  /\ g_out' = Some([plain |-> ParseScanned(Unwrap(g_in).items)])
  /\ g_phase' = "parsed"
  /\ UNCHANGED g_in

\* parse_stream_with_progress(reader, run_id, on_event, on_raw_bytes, filter)
ParseWithProgress ==
  /\ g_phase = "parsed"
  /\ g_out' = Some([plain |-> Unwrap(g_out).plain,
                    progress |-> parse_stream_with_progress(
                                   Unwrap(g_in).items, Unwrap(g_in).filter)])
  /\ g_phase' = "progressed"
  /\ UNCHANGED g_in

\* filter_failing_tests(reader, writer), and a parse of what it wrote
FilterFailing ==
  /\ g_phase = "progressed"
  /\ \E written \in {KeepEvents(Unwrap(g_in).items,
                                FailingInStream(Unwrap(g_in).items))} :
       g_out' = Some([plain |-> Unwrap(g_out).plain,
                      progress |-> Unwrap(g_out).progress,
                      filtered |-> written,
                      reparsed |-> parse_stream(written, UnknownItem)])
  /\ g_phase' = "filtered"
  /\ UNCHANGED g_in

ProgressNext ==
  /\ ParsePlain \/ ParseWithProgress \/ FilterFailing
  /\ UNCHANGED <<codecVars, partVars, repoVars, timeVars, workerVars, execVars,
                 pipeVars>>

\* ------------------------------------------------- codec: specification
\* The shapes of a result besides its id and status: duration, tags, details.
ResultShapes ==
  { [duration |-> None, tags |-> <<>>, details |-> None],
    [duration |-> Some(500), tags |-> <<"worker-0">>, details |-> None],
    [duration |-> Some(1000), tags |-> <<>>, details |-> Some("Traceback")],
    [duration |-> Some(2500), tags |-> <<"worker-1", "slow">>,
     details |-> Some("Traceback")] }

\* The TestRun result maps of at most MaxEvents results.
RunResults ==
  UNION { [S -> [status : TestStatus, shape : ResultShapes]] :
            S \in {T \in SUBSET TestIds : Cardinality(T) <= MaxEvents} }

\* The TestResult a choice of status and shape stands for.
ResultOf(id, c) ==
  TestResult(id, c.status, c.shape.duration,
             IF IsSome(c.shape.details) THEN Some("Failed") ELSE None,
             c.shape.details, c.shape.tags)

RunTimestamps == {10000}

\* Events of a child's raw output: starts and terminal events, with and
\* without timestamps, some of them malformed.
StreamEvents ==
  { Event(Some(id), st, ts, None, None) :
      id \in {"a.x1", "b.y1"}, st \in {"inprogress", "success", "fail"},
      ts \in {None, Some(Timestamp(1000)), Some(Timestamp(3000)),
              Some(BadTimestamp)} }

CodecInit ==
  /\ c_phase = "idle"
  /\ c_run = None
  /\ c_events = <<>>
  /\ c_bytes = <<>>
  /\ c_parsed = None

\* write_stream(run, buffer) on a TestRun, in some iteration order of its map
WriteStream ==
  /\ c_phase = "idle"
  /\ \E choice \in RunResults, timestamp \in RunTimestamps :
       LET results == [id \in DOMAIN choice |-> ResultOf(id, choice[id])]
       IN \E order \in Orders(DOMAIN results) :
            /\ c_run' = Some([results |-> results, timestamp |-> timestamp])
            /\ c_events' = WriteEvents(results, timestamp, order)
            /\ c_bytes' = write_stream(results, timestamp, order)
  /\ c_phase' = "written"
  /\ UNCHANGED <<c_parsed, partVars, repoVars, timeVars, workerVars, execVars, pipeVars, scanVars>>

\* A child process writes a stream of events to its stdout.
ChildOutput ==
  /\ c_phase = "idle"
  /\ \E events \in SeqsUpTo(StreamEvents, MaxEvents) :
       /\ c_events' = events
       /\ c_bytes' = SerializeAll(events)
  /\ c_phase' = "output"
  /\ UNCHANGED <<c_run, c_parsed, partVars, repoVars, timeVars, workerVars, execVars, pipeVars, scanVars>>

\* The stream is cut at a byte position (the child is killed mid-run).
Truncate ==
  /\ c_phase \in {"written", "output"}
  /\ \E n \in 0..(Len(c_bytes) - 1) : c_bytes' = SubSeq(c_bytes, 1, n)
  /\ c_phase' = "cut"
  /\ UNCHANGED <<c_run, c_events, c_parsed, partVars, repoVars, timeVars, workerVars, execVars, pipeVars, scanVars>>

\* parse_stream(&buffer[..], run_id)
ParseStream ==
  /\ c_phase \in {"written", "output", "cut"}
  /\ \E tail \in {UnknownItem, ErrItem, BytesItem} :
       c_parsed' = Some(parse_stream(c_bytes, tail))
  /\ c_phase' = "parsed"
  /\ UNCHANGED <<c_run, c_events, c_bytes, partVars, repoVars, timeVars, workerVars, execVars, pipeVars, scanVars>>

CodecNext == WriteStream \/ ChildOutput \/ Truncate \/ ParseStream

\* The partitioner and the repository at rest.
PartIdle == p_phase = "idle" /\ p_in = None /\ p_out = None

RepoInit ==
  /\ next_stream = 0
  /\ files = EmptyMap
  /\ failing = None
  /\ allocated = <<>>
  /\ last = None
  /\ times = NoTimes

\* The codec at work, the partitioner and the repository at rest.
CodecSpecInit ==
  CodecInit /\ PartIdle /\ RepoInit /\ TimesIdle /\ WorkersIdle /\ ExecIdle /\ PipeIdle /\ ProgressIdle

SpecCodec == CodecSpecInit /\ [][CodecNext]_vars

\* A run was written by write_stream and parsed back whole.
RoundTripDone ==
  /\ c_phase = "parsed"
  /\ IsSome(c_run)
  /\ Len(c_bytes) = Len(SerializeAll(c_events))

\* C6, for all six statuses: parse(write(run)) has the same test ids and, for each id, the
\* same status and the same tags, for all six statuses.
C6_RoundTripAllStatuses ==
  RoundTripDone =>
    LET run == Unwrap(c_run).results
        back == Unwrap(c_parsed)
    IN /\ back.ok
       /\ DOMAIN back.results = DOMAIN run
       /\ \A id \in DOMAIN run :
            /\ back.results[id].status = run[id].status
            /\ back.results[id].tags = run[id].tags

\* C6, with Error read back as Failure: parse(write(run)) has the same test
\* ids and, for each id, the same tags and the same status, except that a
\* result of status Error comes back with status Failure.
C6_RoundTripIdentity ==
  RoundTripDone =>
    LET run == Unwrap(c_run).results
        back == Unwrap(c_parsed)
    IN /\ back.ok
       /\ DOMAIN back.results = DOMAIN run
       /\ \A id \in DOMAIN run :
            /\ back.results[id].status =
                 (IF run[id].status = "Error" THEN "Failure" ELSE run[id].status)
            /\ back.results[id].tags = run[id].tags

\* A run with an Error result, tags, a duration and details went round.
C6_Witness ==
  /\ RoundTripDone
  /\ \E id \in DOMAIN Unwrap(c_run).results :
       LET r == Unwrap(c_run).results[id]
       IN r.status = "Error" /\ Len(r.tags) = 2 /\ IsSome(r.duration)
            /\ IsSome(r.details)
  /\ \E id \in DOMAIN Unwrap(c_run).results :
       Unwrap(c_run).results[id].status = "Skip"

\* C7: every duration comes back from parse(write(run)) equal within
\* a millisecond, sub-second durations included, and an absent duration comes
\* back absent.
C7_DurationRoundTrip ==
  RoundTripDone =>
    LET run == Unwrap(c_run).results
        back == Unwrap(c_parsed)
    IN /\ back.ok
       /\ \A id \in DOMAIN run :
            /\ id \in DOMAIN back.results
            /\ IsSome(back.results[id].duration) = IsSome(run[id].duration)
            /\ IsSome(run[id].duration) =>
                 LET d == Unwrap(run[id].duration)
                     e == Unwrap(back.results[id].duration)
                 IN d - e \in {-1, 0, 1}

\* A stream all of whose timestamps convert.
ValidStream(events) ==
  \A i \in 1..Len(events) :
    IsSome(events[i].timestamp) => Unwrap(events[i].timestamp).valid

\* The results of a list of whole events, taken one by one.
RECURSIVE ResultsOfEvents(_, _)
ResultsOfEvents(s, events) ==
  IF events = <<>> THEN s.results
  ELSE ResultsOfEvents(ParseEvent(s, Head(events)), Tail(events))

\* C8: parsing a valid stream cut at any byte position succeeds with exactly
\* the results of the events that lie completely before the cut.
C8_PartialStreamTolerance ==
  (c_phase = "parsed" /\ ValidStream(c_events)) =>
    LET back == Unwrap(c_parsed)
        whole == SubSeq(c_events, 1, Len(c_bytes) \div PacketBytes)
    IN /\ back.ok
       /\ back.results = ResultsOfEvents(ParseInit, whole)

\* A stream cut in the middle of an event, after an event that gave a result
\* with a duration, was parsed.
C8_Witness ==
  /\ c_phase = "parsed"
  /\ ValidStream(c_events)
  /\ Len(c_bytes) % PacketBytes # 0
  /\ Len(c_bytes) < Len(SerializeAll(c_events))
  /\ \E id \in DOMAIN Unwrap(c_parsed).results :
       IsSome(Unwrap(c_parsed).results[id].duration)

\* C25: every status of a result is a failure or a success and never both:
\* is_failure holds of exactly Failure, Error and UnexpectedSuccess, is_success
\* of exactly Success, Skip and ExpectedFailure.
C25_StatusClassification ==
  IsSome(c_run) =>
    \A id \in DOMAIN Unwrap(c_run).results :
      LET status == Unwrap(c_run).results[id].status
      IN /\ is_failure(status) # is_success(status)
         /\ is_failure(status) <=>
              status \in {"Failure", "Error", "UnexpectedSuccess"}
         /\ is_success(status) <=>
              status \in {"Success", "Skip", "ExpectedFailure"}

\* A run holds an unexpected success next to an expected failure.
C25_Witness ==
  /\ IsSome(c_run)
  /\ {Unwrap(c_run).results[id].status : id \in DOMAIN Unwrap(c_run).results}
       = {"UnexpectedSuccess", "ExpectedFailure"}

\* C21: parse_stream returns an error exactly when one of the whole events of
\* the stream, all of which carry a test id, has a malformed timestamp, be it
\* a start or a terminal event, with or without a start recorded for its id.
C21_BadTimestampIsError ==
  c_phase = "parsed" =>
    LET whole == SubSeq(c_events, 1, Len(c_bytes) \div PacketBytes)
    IN ~Unwrap(c_parsed).ok <=> ~ValidStream(whole)

\* The partitioner about to be called, the codec and the repository at rest.
PartitionSpecInit ==
  PartitionInit /\ CodecInit /\ RepoInit /\ TimesIdle /\ WorkersIdle /\ ExecIdle /\ PipeIdle /\ ProgressIdle

SpecPartition == PartitionSpecInit /\ [][PartitionNext]_vars

\* How often an id occurs in a list of lists.
RECURSIVE Occurrences(_, _)
Occurrences(parts, id) ==
  IF parts = <<>> THEN 0
  ELSE Cardinality({i \in 1..Len(Head(parts)) : Head(parts)[i] = id})
         + Occurrences(Tail(parts), id)

\* Exactly K lists holding every input id once and nothing else.
ExactCover(parts, test_ids, concurrency) ==
  /\ Len(parts) = concurrency
  /\ \A id \in PartitionIds :
       Occurrences(parts, id) = (IF id \in Range(test_ids) THEN 1 ELSE 0)

\* C4: partition_tests returns exactly K lists in which every input id occurs
\* exactly once and no other id occurs; no lists for K = 0; the input itself,
\* in its order, for K = 1.
C4_PartitionCover ==
  (p_phase = "returned" /\ ~IsSome(p_in.group_regex)) =>
    LET out == Unwrap(p_out)
    IN /\ out.status = "ok"
       /\ p_in.concurrency >= 1 =>
            ExactCover(out.parts, p_in.test_ids, p_in.concurrency)
       /\ p_in.concurrency = 0 => out.parts = <<>>
       /\ p_in.concurrency = 1 => out.parts = <<p_in.test_ids>>

\* Three tests, some with and some without a known duration, were split over
\* two or more workers.
C4_Witness ==
  /\ p_phase = "returned"
  /\ ~IsSome(p_in.group_regex)
  /\ p_in.concurrency >= 2
  /\ Len(p_in.test_ids) = 3
  /\ Cardinality(DOMAIN p_in.durations \cap Range(p_in.test_ids)) = 2
  /\ Unwrap(p_out).status = "ok"

\* C23: the ids without a known duration are dealt round-robin in input
\* order, the i-th of them (from 0) into partition i mod K; with no duration
\* known at all the sizes of two partitions differ by at most 1.
C23_RoundRobinUnknown ==
  (p_phase = "returned" /\ ~IsSome(p_in.group_regex) /\ p_in.concurrency >= 1) =>
    LET parts == Unwrap(p_out).parts
        K == p_in.concurrency
        unknown(id) == id \notin DOMAIN p_in.durations
        without_duration == SelectSeq(p_in.test_ids, unknown)
    IN /\ \A i \in 1..Len(without_duration) :
            without_duration[i] \in Range(parts[((i - 1) % K) + 1])
       /\ Len(without_duration) = Len(p_in.test_ids) =>
            \A a, b \in 1..K : Len(parts[a]) - Len(parts[b]) <= 1

\* Three tests without history were dealt to two workers: the third went to
\* the first worker again.
C23_Witness ==
  /\ p_phase = "returned"
  /\ ~IsSome(p_in.group_regex)
  /\ p_in.concurrency = 2
  /\ Len(p_in.test_ids) = 3
  /\ DOMAIN p_in.durations = {}
  /\ Len(Unwrap(p_out).parts[1]) = 2

C22_InvalidPatternIsError ==
  (p_phase = "returned" /\ p_in.group_regex = Some(PatInvalid)) =>
    /\ Unwrap(p_out).status = "err"
    /\ Unwrap(p_out).parts = <<>>

\* C5: for every valid pattern and K >= 2 the call returns K lists
\* that hold every input id exactly once, and two ids with the same group key
\* are in the same list.
C5_GroupingAtomic ==
  (/\ p_phase = "returned"
   /\ IsSome(p_in.group_regex)
   /\ p_in.group_regex # Some(PatInvalid)
   /\ p_in.concurrency >= 2) =>
    LET out == Unwrap(p_out)
        key(id) == GroupName(Unwrap(p_in.group_regex), id)
    IN /\ out.status = "ok"
       /\ ExactCover(out.parts, p_in.test_ids, p_in.concurrency)
       /\ \A a, b \in Range(p_in.test_ids) :
            key(a) = key(b) =>
              \E i \in 1..Len(out.parts) : {a, b} \subseteq Range(out.parts[i])

\* -------------------------------------------------- repository: properties
\* The test ids with a failing status, and with a success status, in the run
\* of the last command.
FailingInRun == {id \in DOMAIN Unwrap(last).statuses : is_failure(Unwrap(last).statuses[id])}

SucceedingInRun == {id \in DOMAIN Unwrap(last).statuses : is_success(Unwrap(last).statuses[id])}

Finished(op, partial) ==
  /\ IsSome(last)
  /\ Unwrap(last).op = op
  /\ Unwrap(last).partial = partial
  /\ Unwrap(last).ok

\* C1: after a successful replace_failing_tests(run) the failing set is exactly
\* the set of test ids whose result in that run has a failing status, whatever
\* the failing set was before.
C1_ReplaceExact ==
  Finished("load", FALSE) => get_failing_tests(failing) = Some(FailingInRun)

\* C2: after a successful update_failing_tests(run) the failing set is the
\* previous failing set without the ids that succeed in the run, with the ids
\* that fail in the run; an id the run does not mention keeps its state.
C2_MergeFrame ==
  (Finished("load", TRUE) /\ IsSome(Unwrap(last).before)) =>
    get_failing_tests(failing) =
      Some((Unwrap(Unwrap(last).before) \ SucceedingInRun) \cup FailingInRun)

\* C3: after a full parallel run with more than one worker the failing set is
\* exactly the set of test ids with a failing status in the merged run, over
\* the results of all the workers.
C3_ParallelFailingSet ==
  Finished("parallel", FALSE) => get_failing_tests(failing) = Some(FailingInRun)

\* C36: a run of the failing tests only selects exactly the ids of the
\* failing set of the repository: whenever that set is not empty the run
\* takes those ids and does not end with "No failing tests to run", after a
\* partial run and after a parallel run as well.
C36_FailingOnlySelectsFailingSet ==
  \A ids \in {get_failing_tests(failing)} :
    (IsSome(ids) /\ Unwrap(ids) # {}) =>
      /\ FailingOnlyTests(files, next_stream).ok
      /\ FailingOnlyTests(files, next_stream).ids = Unwrap(ids)

\* C37: after a run that ended well, in any mode, get_latest_run returns a
\* TestRun with the result of every test of that run; after a parallel run
\* it holds the results of all the workers.
C37_LatestRunHoldsWholeRun ==
  (IsSome(last) /\ Unwrap(last).ok) =>
    /\ get_latest_run(files, next_stream).ok
    /\ Statuses(get_latest_run(files, next_stream).results) = Unwrap(last).statuses

\* C37 for the runs stored in one file: the latest run is the run just
\* loaded.
C37_LatestRunOfLoad ==
  (IsSome(last) /\ Unwrap(last).ok /\ Len(Unwrap(last).ids) = 1) =>
    /\ get_latest_run(files, next_stream).ok
    /\ Statuses(get_latest_run(files, next_stream).results) = Unwrap(last).statuses

\* C40: when replace_failing_tests or update_failing_tests returns an error
\* (the run file is missing, or a read or a write fails on the way) the
\* failing set get_failing_tests gives afterwards is the one it gave
\* before.
C40_ErrorLeavesFailingSet ==
  (IsSome(last) /\ Unwrap(last).op = "load" /\ Unwrap(last).stored = "err") =>
    get_failing_tests(failing) = Unwrap(last).before

\* C40 for update_failing_tests alone, which writes to a temporary file.
C40_MergeErrorLeavesFailingSet ==
  (IsSome(last) /\ Unwrap(last).op = "load" /\ Unwrap(last).stored = "err"
     /\ Unwrap(last).partial) =>
    get_failing_tests(failing) = Unwrap(last).before

\* C9: on a freshly initialised repository the k-th begin_test_run_raw returns
\* k-1, no id is returned twice, and the persisted counter (get_next_run_id) is
\* the number of ids allocated so far.
C9_RunIdCounter ==
  /\ next_stream = Len(allocated)
  /\ \A k \in 1..Len(allocated) : allocated[k] = k - 1
  /\ \A j, k \in 1..Len(allocated) : allocated[j] = allocated[k] => j = k

C9_Witness ==
  /\ Len(allocated) = MaxRuns
  /\ IsSome(last)
  /\ Unwrap(last).op = "load"
  /\ Unwrap(last).next_before = MaxRuns - 1

\* C10: one parallel run advances the run-id counter by exactly one and
\* creates exactly one run file, which holds the results of all its workers.
C10_OneRunOneFile ==
  (IsSome(last) /\ Unwrap(last).op = "parallel") =>
    /\ next_stream = Unwrap(last).next_before + 1
    /\ Cardinality((DOMAIN files) \ Unwrap(last).files_before) = 1
    /\ Statuses(get_test_run(files, Unwrap(last).run_id).results) = Unwrap(last).statuses

\* C11: after every successful replace or merge the `failing` file exists if
\* and only if the failing set is not empty; it is never left empty; and with
\* the file absent get_failing_tests returns no id.
C11_FailingFileIffNonEmpty ==
  (IsSome(last) /\ Unwrap(last).ok) =>
    /\ failing # Some(<<>>)
    /\ IsSome(get_failing_tests(failing))
    /\ IsSome(failing) <=> (Unwrap(get_failing_tests(failing)) # {})
    /\ get_failing_tests(None) = Some({})

\* A merge removed the last failure and with it the `failing` file.
C11_Witness ==
  /\ Finished("load", TRUE)
  /\ IsSome(Unwrap(last).before)
  /\ Unwrap(Unwrap(last).before) # {}
  /\ SucceedingInRun # {}
  /\ failing = None

\* C12: every test id get_failing_tests returns maps to a result of failing
\* status in the `failing` file, also when a run's stream carries more than one
\* terminal event for the id.
C12_FailingOnlyFailures ==
  (IsSome(last) /\ Unwrap(last).ok) =>
    LET results == read_failing_run(failing).results
    IN \A id \in Unwrap(get_failing_tests(failing)) : is_failure(results[id].status)

\* A repository with some times.dbm; the codec, the partitioner and the run
\* commands at rest.
TimesSpecInit ==
  /\ TimesInit
  /\ next_stream = 0
  /\ files = EmptyMap
  /\ failing = None
  /\ allocated = <<>>
  /\ last = None
  /\ CodecInit
  /\ PartIdle
  /\ WorkersIdle
  /\ ExecIdle
  /\ PipeIdle /\ ProgressIdle

SpecTimes == TimesSpecInit /\ [][TimesNext]_vars

\* C18: the duration history is last-write-wins per test id: a read returns,
\* for each requested id, the duration of the most recent update that held the
\* id, and nothing for an id never updated or not requested; an update leaves
\* the rows of the ids it does not mention as they were.
C18_LastWriteWins ==
  /\ (IsSome(t_last) /\ Unwrap(t_last).op = "get" /\ IsSome(t_latest)) =>
       LET latest == Unwrap(t_latest)
           asked == Range(Unwrap(t_last).ids) \cap DOMAIN latest
       IN Unwrap(t_last).result = TimesOk([id \in asked |-> latest[id]])
  /\ (IsSome(t_last) /\ Unwrap(t_last).op = "update" /\ Unwrap(t_last).ok) =>
       \A id \in (DOMAIN times.dict) \ (DOMAIN Unwrap(t_last).arg) :
         /\ id \in DOMAIN Unwrap(t_last).before.dict
         /\ times.dict[id] = Unwrap(t_last).before.dict[id]

\* After the last of several calls, a read returned the overwritten duration
\* of a.x1 and left out a stored id that was not requested.
C18_Witness ==
  /\ t_calls = MaxCalls
  /\ IsSome(t_last)
  /\ Unwrap(t_last).op = "get"
  /\ IsSome(t_latest)
  /\ "a.x1" \in DOMAIN Unwrap(t_last).before.dict
  /\ Unwrap(t_last).before.dict["a.x1"] = SecondsText(5000)
  /\ Unwrap(t_last).result = TimesOk([id \in {"a.x1"} |-> 5000])
  /\ "b.y1" \in DOMAIN Unwrap(t_latest)

\* C19: get_test_times_for_ids never fails because of the content of
\* times.dbm: it returns Ok for every file.
C19_ReaderNeverFails ==
  (IsSome(t_last) /\ Unwrap(t_last).op = "get") => Unwrap(t_last).result.status = "ok"

\* C20: with a times.dbm that is present but no SQLite database, the duration
\* update that follows a run completes without a storage error.
C20_UnreadableTimesTolerated ==
  (/\ IsSome(t_last)
   /\ Unwrap(t_last).op = "update"
   /\ Unwrap(t_last).before.format \in {"gdbm", "corrupt"}) => Unwrap(t_last).ok

\* A freshly initialised repository, the codec and the partitioner at rest.
\* The last command is a parallel run that returned an exit code.
RunReturned ==
  /\ IsSome(last)
  /\ Unwrap(last).op = "parallel"
  /\ Unwrap(last).ok
  /\ IsSome(Unwrap(Unwrap(last).run).code)

\* The failing set the merged run of the last command calls for: the failing
\* ids of the run, and in partial mode also the previous ones that did not
\* succeed in it.
FailingAfterRun ==
  IF Unwrap(last).partial
    THEN (Unwrap(Unwrap(last).before) \ SucceedingInRun) \cup FailingInRun
    ELSE FailingInRun

\* C14: a worker that exits non-zero sets the any-failed flag and does not keep
\* the results of any worker, its own included, from being merged and used for
\* the failing set and the duration history; the run's exit code is 1 exactly
\* when the merged run has a failing result or some worker exited non-zero.
C14_NonZeroWorkerResultsUsed ==
  RunReturned =>
    LET run == Unwrap(Unwrap(last).run)
    IN /\ run.any_failed <=> (run.nonzero # 0)
       /\ Unwrap(run.code) = 1 <=> (FailingInRun # {} \/ run.any_failed)
       /\ run.any_failed =>
            /\ get_failing_tests(failing) = Some(FailingAfterRun)
            /\ \A id \in DOMAIN run.durations :
                 /\ id \in DOMAIN times.dict
                 /\ times.dict[id] = SecondsText(run.durations[id])

\* C15: when the parse thread of a worker panics or its parser returns a
\* protocol error, the run returns an error, and the failing set and the
\* duration history are what they were before the run, whatever the other
\* workers reported.
C15_ParseFailureLeavesStore ==
  (IsSome(last) /\ Unwrap(last).op = "parallel"
     /\ Unwrap(Unwrap(last).run).trouble.kind # "none") =>
    /\ ~Unwrap(last).ok
    /\ Unwrap(Unwrap(last).run).code = None
    /\ get_failing_tests(failing) = Unwrap(last).before
    /\ times = Unwrap(last).times_before

C15_Witness ==
  /\ IsSome(last)
  /\ Unwrap(last).op = "parallel"
  /\ Unwrap(Unwrap(last).run).trouble.kind = "panic"
  /\ Len(Unwrap(last).ids) = 2
  /\ FailingInRun # {}
  /\ FailingInRun \cap Unwrap(Unwrap(last).before) = {}
  /\ DOMAIN Unwrap(Unwrap(last).run).durations # {}
  /\ times = NoTimes

WorkersSpecInit ==
  WorkersInit /\ RepoInit /\ CodecInit /\ PartIdle /\ TimesIdle /\ ExecIdle /\ PipeIdle /\ ProgressIdle

SpecWorkers == WorkersSpecInit /\ [][WorkersNext]_vars

\* C13: once provisioning has succeeded in a parallel run (with provision and
\* dispose commands configured), the dispose command has been run for every
\* provisioned instance when the run has returned, whichever way it returned.
C13_DisposedOnEveryExit ==
  (w_pc = "done" /\ w_inst # <<>>
     /\ Unwrap(w_cfg).provision /\ Unwrap(w_cfg).dispose) =>
    \A i \in 1..Len(w_inst) : w_inst[i] >= 1

\* C38, on every path: the dispose command has been run exactly once for
\* every provisioned instance by the time the parallel run has returned.
C38_DisposedExactlyOnce ==
  (w_pc = "done" /\ w_inst # <<>>
     /\ Unwrap(w_cfg).provision /\ Unwrap(w_cfg).dispose) =>
    \A i \in 1..Len(w_inst) : w_inst[i] = 1

\* C38, on the path that ends with an exit code: when the parallel run has
\* returned its exit code, the dispose command has been run for no instance
\* more than once.
C38_NotTwiceOnSuccess ==
  (w_pc = "done" /\ w_inst # <<>> /\ Unwrap(w_cfg).dispose
     /\ IsSome(w_result) /\ Unwrap(w_result).kind = "code") =>
    \A i \in 1..Len(w_inst) : w_inst[i] <= 1

ExecSpecInit ==
  ExecInit /\ RepoInit /\ CodecInit /\ PartIdle /\ TimesIdle /\ WorkersIdle /\ PipeIdle /\ ProgressIdle

SpecExecute == ExecSpecInit /\ [][ExecNext]_vars

\* The outcome of the last iteration that ended.
LastOutcome == e_history[Len(e_history)]

FailingInIsolated ==
  {id \in DOMAIN e_all_results : is_failure(e_all_results[id].status)}

\* C17: in isolated mode at most one child process is alive at any time, and
\* when the process of every test has run and its output has been parsed, the
\* run ends without error, the merged run holds a result for each test, the
\* failing set is updated from the merged run (replaced, or merged in partial
\* mode) and the duration history holds the durations of the merged run.
C17_IsolatedRunStored ==
  /\ Cardinality(e_alive) <= 1
  /\ (e_pc = "done" /\ Unwrap(e_cfg).isolated
        /\ LastOutcome.why \notin {"spawn", "parse"}) =>
       /\ DOMAIN e_all_results = Unwrap(e_cfg).tests
       /\ LastOutcome.kind = "code"
       /\ FailingInIsolated \subseteq Unwrap(get_failing_tests(failing))
       /\ ~Unwrap(e_cfg).partial =>
            get_failing_tests(failing) = Some(FailingInIsolated)
       /\ \A id \in DOMAIN KnownDurations(e_all_results) :
            /\ id \in DOMAIN times.dict
            /\ times.dict[id] = SecondsText(KnownDurations(e_all_results)[id])

\* ------------------------------------------------- pipeline: properties
PipelineSpecInit ==
  /\ PipelineInit /\ RepoInit /\ CodecInit /\ PartIdle /\ TimesIdle
  /\ WorkersIdle /\ ExecIdle /\ ProgressIdle

SpecPipeline == PipelineSpecInit /\ [][PipelineNext]_vars

\* The operating system schedules every process and thread that can take a
\* step, and a child whose writes are accepted goes on to close its pipes and
\* exit.
FairSpecPipeline == SpecPipeline /\ WF_vars(PipelineNext)

AllJoined(w) == s_joined[w] = Threads

\* C26: in a parallel run no child is waited for before the parse, tee and
\* stderr threads of every worker are joined.
C26_JoinAllBeforeWait ==
  s_mode = "parallel" =>
    \A w \in PipeWorkers : s_waited[w] => \A v \in PipeWorkers : AllJoined(v)

\* A parallel run waited for its first child while the second has yet to be
\* waited for.
C26_Witness ==
  s_mode = "parallel" /\ s_waited[1] /\ ~s_waited[2]

\* C27: in a serial run the child is waited for only after its stdout tee
\* thread and its parse thread are joined.
C27_SerialJoinBeforeWait ==
  s_mode = "serial" =>
    \A w \in PipeWorkers : s_waited[w] => {"parse", "tee"} \subseteq s_joined[w]

\* C28: a serial or parallel run eventually returns with the tee, stderr and
\* parse threads of every worker joined and every child waited for, whatever
\* the output and also when a parser stops early.
C28_RunEndsJoinedAndWaited ==
  <>(/\ IsSome(s_pc) /\ Unwrap(s_pc).step = "returned"
     /\ \A w \in PipeWorkers : AllJoined(w) /\ s_waited[w])

\* The tee thread of worker w holds a chunk that the full channel does not
\* take.
BlockedInSend(w) ==
  /\ s_tee[w].pc = "send"
  /\ s_chan[w].rx
  /\ Len(s_chan[w].chunks) = ChannelCapacity

\* C29: the channel never holds more chunks than its capacity, and while it
\* is full and the parser takes no chunk, the tee thread holding the next
\* chunk stays where it is and no byte leaves the child's stdout pipe.
C29_Backpressure ==
  [][\A w \in PipeWorkers :
       /\ Len(s_chan'[w].chunks) <= ChannelCapacity
       /\ (BlockedInSend(w) /\ s_chan'[w] = s_chan[w]) =>
            /\ s_tee'[w] = s_tee[w]
            /\ s_sink'[w] = s_sink[w]
            /\ IsPrefix(s_pipe[w], s_pipe'[w])]_vars

\* The tee thread is blocked in send while the child's next byte waits in
\* the pipe behind it.
C29_Witness ==
  \E w \in PipeWorkers : BlockedInSend(w) /\ s_pipe[w] # <<>>

\* The bytes the child has written to its stdout so far.
Written(w) == SubSeq(s_out[w], 1, s_child[w].written)

\* C30: the raw sink holds the bytes read from the child's stdout, in order,
\* each once, whether or not the parser still reads, and all of them once the
\* tee thread has ended; the bytes the parser has read, then those still in
\* the ChannelReader, in the channel and in the hands of the tee thread, are
\* the same sequence; the ChannelReader reports the end of the stream only
\* with the sender dropped and every byte returned.
C30_TeeFidelity ==
  \A w \in PipeWorkers :
    /\ s_sink[w] \o s_pipe[w] = Written(w)
    /\ s_tee[w].pc = "done" => s_sink[w] = s_out[w]
    /\ s_chan[w].rx =>
         s_parser[w].bytes
           \o SubSeq(s_reader[w].buffer, s_reader[w].pos + 1, Len(s_reader[w].buffer))
           \o Flatten(s_chan[w].chunks)
           \o s_tee[w].buf
         = s_sink[w]
    /\ IsPrefix(s_parser[w].bytes, s_sink[w])
    /\ s_parser[w].pc = "eof" =>
         ~s_chan[w].tx /\ s_parser[w].bytes = s_out[w]

\* The parser stopped at the first byte while the tee thread wrote the whole
\* output to the sink, and another parser read a whole output to its end.
C30_Witness ==
  \E w \in PipeWorkers :
    /\ Len(s_out[w]) = MaxOutput
    /\ s_tee[w].pc = "done"
    /\ \/ s_parser[w].pc = "stopped" /\ Len(s_parser[w].bytes) = 1
       \/ s_parser[w].pc = "eof"

\* A serial run whose raw sink may be full before the child has written all
\* its output.
SinkSpecInit ==
  /\ PipelineStart({"serial"}, 0..MaxOutput) /\ RepoInit /\ CodecInit /\ PartIdle
  /\ TimesIdle /\ WorkersIdle /\ ExecIdle /\ ProgressIdle

SpecSink == SinkSpecInit /\ [][PipelineNext]_vars

\* The bytes sent to the parser of worker w: those it has read, those still
\* in its ChannelReader and those in the channel.
Delivered(w) ==
  s_parser[w].bytes
    \o SubSeq(s_reader[w].buffer, s_reader[w].pos + 1, Len(s_reader[w].buffer))
    \o Flatten(s_chan[w].chunks)

\* C39: the bytes delivered to the parser of a worker are at every moment a
\* prefix of the bytes already written to its raw sink, and no byte of a
\* chunk whose write to the sink failed is ever delivered.
C39_DeliveredAfterStored ==
  \A w \in PipeWorkers :
    /\ IsPrefix(s_parser[w].bytes, s_sink[w])
    /\ s_chan[w].rx => IsPrefix(Delivered(w), s_sink[w])
    /\ s_tee[w].pc = "failed" =>
         \A i \in 1..Len(s_tee[w].buf) :
           \A j \in 1..Len(Delivered(w)) : Delivered(w)[j] # s_tee[w].buf[i]

\* The write of a chunk to the raw sink failed after the parser had read
\* bytes of an earlier chunk.
C39_Witness ==
  \E w \in PipeWorkers :
    /\ s_tee[w].pc = "failed"
    /\ s_tee[w].buf # <<>>
    /\ s_parser[w].bytes # <<>>

\* ------------------------------------- parser with progress: properties
ProgressSpecInit ==
  /\ ProgressSpecCalls /\ RepoInit /\ CodecInit /\ PartIdle /\ TimesIdle
  /\ WorkersIdle /\ ExecIdle /\ PipeIdle

SpecProgress == ProgressSpecInit /\ [][ProgressNext]_vars

\* What the two parsers returned for the stream read.
Plain == Unwrap(g_out).plain
Progress == Unwrap(g_out).progress
Stream == Unwrap(g_in).items

\* C31: for every stream and both output filters parse_stream_with_progress
\* returns the results parse_stream returns (ids, statuses, durations, tags,
\* message, details) and fails when parse_stream fails: the callbacks and
\* the buffering change nothing of the result.
C31_ProgressRefinesParse ==
  g_phase = "progressed" =>
    /\ Progress.ok = Plain.ok
    /\ Progress.results = Plain.results

\* Both parsers gave a test a duration that is no whole number of seconds,
\* and the parser with progress forwarded output on the way.
C31_Witness ==
  /\ g_phase = "progressed"
  /\ Progress.ok
  /\ "a.x1" \in DOMAIN Progress.results
  /\ Progress.results["a.x1"].duration = Some(1500)
  /\ Progress.forwarded # <<>>

\* Whether item i of the stream is an event of a test, with one of `statuses`.
IsEventOf(items, i, statuses) ==
  /\ items[i].kind = "event"
  /\ IsSome(items[i].ev.test_id)
  /\ items[i].ev.status \in statuses

TerminalStatuses == {"success", "fail", "skip", "xfail", "uxsuccess"}

\* The test that is running when item i is read: the test of the last start
\* event before i, unless it has ended since; None when there is none.
CurrentTest(items, i) ==
  LET starts == {j \in 1..(i - 1) : IsEventOf(items, j, {"inprogress"})}
  IN IF starts = {} THEN None
     ELSE LET j == CHOOSE x \in starts : \A y \in starts : y <= x
              id == Unwrap(items[j].ev.test_id)
          IN IF \E k \in (j + 1)..(i - 1) :
                  /\ IsEventOf(items, k, TerminalStatuses)
                  /\ Unwrap(items[k].ev.test_id) = id
               THEN None
               ELSE Some(id)

\* C32: under FailuresOnly the bytes callback is called only at a terminal
\* event with a failing status, with the attachments of the test of that
\* event and with stray output buffered while that test was the running one
\* (output of another running test is never forwarded at this test's
\* failure); under All stray output is forwarded by the item that carries it.
C32_OutputOnlyForOwnFailure ==
  g_phase \in {"progressed", "filtered"} =>
    \A n \in 1..Len(Progress.forwarded) :
      LET call == Progress.forwarded[n]
          shown == {call.chunks[c] : c \in 1..Len(call.chunks)}
      IN IF Unwrap(g_in).filter = "All"
           THEN call.what = "output" => \A chunk \in shown : chunk.from = call.at
           ELSE /\ IsEventOf(Stream, call.at, {"fail", "uxsuccess"})
                /\ \A chunk \in shown :
                     IF call.what = "attachments"
                       THEN Stream[chunk.from].ev.test_id = Stream[call.at].ev.test_id
                       ELSE CurrentTest(Stream, chunk.from)
                              \in {None, Stream[call.at].ev.test_id}

\* C32, for the output that is read while no test or the failing test itself
\* is the running one: the same statement with the output of other running
\* tests left out of it.
C32_OutputOnlyAtFailure ==
  g_phase \in {"progressed", "filtered"} =>
    \A n \in 1..Len(Progress.forwarded) :
      LET call == Progress.forwarded[n]
          shown == {call.chunks[c] : c \in 1..Len(call.chunks)}
      IN IF Unwrap(g_in).filter = "All"
           THEN call.what = "output" => \A chunk \in shown : chunk.from = call.at
           ELSE /\ IsEventOf(Stream, call.at, {"fail", "uxsuccess"})
                /\ \A chunk \in shown :
                     call.what = "attachments" =>
                       Stream[chunk.from].ev.test_id = Stream[call.at].ev.test_id

\* The ids with a failing result in what a parser returned.
FailingResults(parsed) ==
  {id \in DOMAIN parsed.results : is_failure(parsed.results[id].status)}

\* The events a stream of items carries, in order.
EventsOf(items) ==
  LET events == SelectSeq(items, LAMBDA item : item.kind = "event")
  IN [i \in 1..Len(events) |-> events[i].ev]

\* The filter wrote, in their order, the events of the tests that have a
\* failing event in the input, and nothing else.
FilterKeepsFailingTests ==
  LET failing_tests == {Unwrap(Stream[i].ev.test_id) :
                    i \in {j \in 1..Len(Stream) :
                             IsEventOf(Stream, j, {"fail", "uxsuccess"})}}
      kept == SelectSeq(EventsOf(Stream),
                        LAMBDA e : IsSome(e.test_id) /\ Unwrap(e.test_id) \in failing_tests)
      written == iter_stream(Unwrap(g_out).filtered, UnknownItem)
  IN /\ \A i \in 1..Len(written) : written[i].kind = "event"
     /\ EventsOf(written) = kept

C33_FilterOutput == g_phase = "filtered" => FilterKeepsFailingTests

\* How many items of the stream a parser reads that gives up at `bound`
\* unparseable items in a row: all of them, or those up to the last item of
\* the first such run.
ItemsReadWithin(items, bound) ==
  LET parseable == {i \in 1..Len(items) : items[i].kind \in {"event", "bytes"}}
      \* the places after which `bound` unparseable items follow
      before == {p \in parseable \cup {0} :
                   /\ p + bound <= Len(items)
                   /\ \A q \in parseable : q <= p \/ q > p + bound}
  IN IF before = {} THEN Len(items)
     ELSE bound + (CHOOSE p \in before : \A q \in before : p <= q)

ItemsRead(items) == ItemsReadWithin(items, MAX_CONSECUTIVE_ERRORS)

\* The place of the last event of test id among the first n items that has
\* one of `statuses` (and a timestamp, if `timed`); 0 if there is none.
LastEvent(items, n, id, statuses, timed) ==
  LET places == {i \in 1..n : /\ IsEventOf(items, i, statuses)
                              /\ Unwrap(items[i].ev.test_id) = id
                              /\ timed => IsSome(items[i].ev.timestamp)}
  IN IF places = {} THEN 0 ELSE CHOOSE i \in places : \A j \in places : j <= i

\* The duration the stream gives test id: from the last start with a
\* timestamp before its last terminal event, at place `end`, to that event.
StreamDuration(items, id, end) ==
  LET start == LastEvent(items, end - 1, id, {"inprogress"}, TRUE)
  IN IF start = 0 \/ ~IsSome(items[end].ev.timestamp) THEN None
     ELSE LET d == Unwrap(items[end].ev.timestamp).ms
                     - Unwrap(items[start].ev.timestamp).ms
          IN IF d >= 0 THEN Some(d) ELSE None

Collected(items, n) ==
  {id \in TestIds : LastEvent(items, n, id, TerminalStatuses, FALSE) # 0}

\* Whether some event of the stream carries a malformed timestamp.
HasBadTimestamp(items) ==
  \E i \in 1..Len(items) :
    items[i].kind = "event" /\ items[i].ev.timestamp = Some(BadTimestamp)

C35_CollectedBelowBound ==
  /\ g_phase = "parsed" /\ Plain.ok
  /\ Len(Stream) = MAX_CONSECUTIVE_ERRORS
  /\ \A i \in 1..(MAX_CONSECUTIVE_ERRORS - 1) : Stream[i] = UnknownItem
  /\ DOMAIN Plain.results # {}

Init ==
  RepoInit /\ CodecInit /\ PartIdle /\ TimesIdle /\ WorkersIdle /\ ExecIdle /\ PipeIdle /\ ProgressIdle

Spec == Init /\ [][Next]_vars

====
